---- MODULE Spec2Model ----
(***************************************************************************)
(* NumberPlace: the backtracking solver (src/src/utils/sudokuSolver.ts)    *)
(* and the rule validator (src/unnamed/part_004, sudokuValidator.ts).      *)
(*                                                                         *)
(* Grids are 9x9 as in the source.  A grid VALUE is a sequence of 9 rows,  *)
(* each a sequence of 9 cells; the source's 0-based (row, col) is read     *)
(* through at(g, row, col).  JavaScript arrays are objects: a grid         *)
(* REFERENCE is a sequence of 9 row addresses into `heap`, so that the     *)
(* copy made by the constructor (and its absence) is observable.           *)
(* null cells are Null; an optional value (T | null | undefined) is a      *)
(* sequence of length 0 (absent) or 1 (present).                           *)
(***************************************************************************)
EXTENDS Integers, Sequences, FiniteSets, TLC

VARIABLES
  heap,            \* row objects: address -> row value
  callerGrid,      \* reference to the grid the caller passes to the constructor
  regions,         \* the caller's optional Regions argument
  grid,            \* SudokuSolver.grid (reference), <<>> before construction
  thisRegions,     \* SudokuSolver.regions
  iterations,      \* SudokuSolver.iterations
  maxIterations,   \* SudokuSolver.maxIterations
  stack,           \* solveSudoku frames that are inside their digit loop
  pc,              \* position of the caller / of the innermost invocation
  result,          \* value returned by solve(): <<>> is null, <<ref>> a grid
  first,           \* outcome of an earlier solve() on the same input, if any
  vcall,           \* arguments of the last call of SudokuValidator
  validationResult, \* its SudokuValidationResult
  comparison,      \* value returned by SudokuValidator.compareGrids, if called
  lineData,        \* countLinePixels: horizontalLines, verticalLines, thickThreshold
  lineResults,     \* classifyLines: thickHorizontal, thickVertical
  cellConnections, \* buildCellConnectionGraph: the true entries of the matrix
  bfs,             \* findConnectedRegions: visited, regions, region, queue, startCell
  firstRegions,    \* regions of an earlier reconstruction from the same lines
  ruleChecks,      \* values returned by the three rule checkers on one grid
  appState,        \* App: useState<AppState>
  editableGrid,    \* App: useState<SudokuGrid | null>
  isEditing,       \* App: useState(false)
  preEditState,    \* App: the saved step, validationResult, validationErrors
  uploads,         \* App: the handleImageUpload calls made, awaiting or settled
  running,         \* App: the handler that is executing, with its locals
  editBase         \* history: appState at handleStartEdit, while only cell
                   \* edits and a cancel have followed it

vars == <<heap, callerGrid, regions, grid, thisRegions, iterations,
          maxIterations, stack, pc, result, first, vcall, validationResult,
          comparison, lineData, lineResults, cellConnections, bfs, firstRegions,
          ruleChecks, appState, editableGrid, isEditing, preEditState, uploads,
          running, editBase>>

\* the state of the App component
uiVars == <<appState, editableGrid, isEditing, preEditState, uploads, running,
            editBase>>

imageVars == <<lineData, lineResults, cellConnections, bfs, firstRegions>>

solverVars == <<grid, thisRegions, iterations, maxIterations, stack, result, first>>

(***************************************************************************)
(* Bounds of the model.                                                    *)
(***************************************************************************)
\* at most this many cells of the pool are empty in an input grid
MaxEmpty == 4
\* the small step budgets tried besides the reference value
MaxBudget == 3

(***************************************************************************)
(* Data model (src/src/types/sudoku.ts).                                   *)
(***************************************************************************)
Null == 0
Digits == 1..9
Idx == 0..8
Cells == Idx \X Idx

at(g, row, col) == g[row + 1][col + 1]

Min(S) == CHOOSE x \in S : \A y \in S : x <= y

\* private field initialiser: maxIterations = 1000000
DefaultMaxIterations == 1000000

Budgets == (1..MaxBudget) \cup {DefaultMaxIterations}

\* App: the argument of useState<AppState>; a key that is absent or undefined
\* is <<>>
initialAppState ==
  [originalGrid     |-> <<>>,
   solvedGrid       |-> <<>>,
   regions          |-> <<>>,
   validationResult |-> <<>>,
   isLoading        |-> FALSE,
   currentStep      |-> "upload",
   validationErrors |-> <<>>,
   processingSteps  |-> <<>>,
   solverError      |-> <<>>]

(***************************************************************************)
(* Heap of row arrays.                                                     *)
(***************************************************************************)
deref(h, ref) == [r \in 1..9 |-> h[ref[r]]]

\* a plausible slip: the assignment is made to a copy of the row
writeCell_lost(h, ref, row, col, v) == h

\* this.grid[row][col] = v
writeCell(h, ref, row, col, v) == [h EXCEPT ![ref[row + 1]][col + 1] = v]

\* a plausible slip: [...grid] copies the outer array only
copyGrid_shallow(h, ref) == [heap |-> h, ref |-> ref]

\* grid.map(row => [...row]): a new outer array of new row arrays
copyGrid(h, ref) ==
  [heap |-> h \o [r \in 1..9 |-> h[ref[r]]],
   ref  |-> [r \in 1..9 |-> Len(h) + r]]

(***************************************************************************)
(* Regions.                                                                *)
(***************************************************************************)
\* SudokuSolver.createStandardRegions: blockRow, blockCol, row, col order
createStandardRegions ==
  [k \in 1..9 |->
    [i \in 1..9 |->
      << ((k - 1) \div 3) * 3 + ((i - 1) \div 3),
         ((k - 1) % 3) * 3 + ((i - 1) % 3) >> ] ]

\* first region, in list order, that contains (row, col); <<>> is null
findRegionContaining(row, col, regs) ==
  LET hits == { k \in 1..Len(regs) :
                  \E i \in 1..Len(regs[k]) : regs[k][i] = <<row, col>> }
  IN IF hits = {} THEN <<>> ELSE << regs[Min(hits)] >>

(***************************************************************************)
(* SudokuSolver.                                                           *)
(***************************************************************************)
\* a plausible slip: the region loop left out
isValidMove_noRegion(g, regs, row, col, num) ==
  /\ \A i \in Idx : at(g, row, i) # num
  /\ \A i \in Idx : at(g, i, col) # num

isValidMove(g, regs, row, col, num) ==
  LET region == findRegionContaining(row, col, regs)
  IN /\ \A i \in Idx : at(g, row, i) # num
     /\ \A i \in Idx : at(g, i, col) # num
     /\ region # <<>> =>
          \A k \in 1..Len(region[1]) :
            at(g, region[1][k][1], region[1][k][2]) # num

\* the cells the row-major scan of solveSudoku meets as null
emptyCells(g) == { p \in Cells : at(g, p[1], p[2]) = Null }

\* a plausible slip: the columns of a row scanned from 8 down to 0
firstEmpty_colDescending(g) ==
  LET k == Min({ p[1] * 9 + (8 - p[2]) : p \in emptyCells(g) })
  IN << k \div 9, 8 - (k % 9) >>

\* the first of them in row-major order
firstEmpty(g) ==
  LET k == Min({ p[1] * 9 + p[2] : p \in emptyCells(g) })
  IN << k \div 9, k % 9 >>

\* a plausible slip: the budget test fires on one count only
budgetExceeded_once(it, max) == it = max + 1

\* if (this.iterations > this.maxIterations)
budgetExceeded(it, max) == it > max

\* a plausible slip: the reset after a failed recursion left out
backtrack_skip(h, ref, row, col) == h

\* a plausible slip: row and col exchanged in the reset
backtrack_swapped(h, ref, row, col) == writeCell(h, ref, col, row, Null)

\* this.grid[row][col] = null
backtrack(h, ref, row, col) == writeCell(h, ref, row, col, Null)

top == stack[Len(stack)]
pop == SubSeq(stack, 1, Len(stack) - 1)
setNum(n) == [stack EXCEPT ![Len(stack)].num = n]

(***************************************************************************)
(* SudokuValidator (src/unnamed/part_004).  A violation is a record        *)
(* [row, col, message]; the message is kept as its kind and the digit it   *)
(* names: <<"changed">>, <<"row", v>>, <<"col", v>>, <<"region", v>>.      *)
(***************************************************************************)
Validator_findRegionContaining(row, col, regs) ==
  LET hits == { k \in 1..Len(regs) :
                  \E i \in 1..Len(regs[k]) : regs[k][i] = <<row, col>> }
  IN IF hits = {} THEN <<>> ELSE << regs[Min(hits)] >>

error(row, col, message) == [row |-> row, col |-> col, message |-> message]

\* a plausible slip: the column loop excludes i = col instead of i = row
checkSudokuRules_colSlip(g, row, col, value, regs) ==
  LET rowErrors ==
        IF \E i \in Idx : i # col /\ at(g, row, i) = value
        THEN << error(row, col, <<"row", value>>) >> ELSE <<>>
      colErrors ==
        IF \E i \in Idx : i # col /\ at(g, i, col) = value
        THEN << error(row, col, <<"col", value>>) >> ELSE <<>>
      region ==
        IF regs # <<>> THEN Validator_findRegionContaining(row, col, regs[1])
        ELSE <<>>
      regionErrors ==
        IF /\ region # <<>>
           /\ \E k \in 1..Len(region[1]) :
                /\ region[1][k] # <<row, col>>
                /\ at(g, region[1][k][1], region[1][k][2]) = value
        THEN << error(row, col, <<"region", value>>) >> ELSE <<>>
  IN rowErrors \o colErrors \o regionErrors

\* a plausible slip: return instead of break, so that only the first origin
\* found is reported
checkSudokuRules_firstOnly(g, row, col, value, regs) ==
  LET region ==
        IF regs # <<>> THEN Validator_findRegionContaining(row, col, regs[1])
        ELSE <<>>
  IN IF \E i \in Idx : i # col /\ at(g, row, i) = value
     THEN << error(row, col, <<"row", value>>) >>
     ELSE IF \E i \in Idx : i # row /\ at(g, i, col) = value
     THEN << error(row, col, <<"col", value>>) >>
     ELSE IF /\ region # <<>>
             /\ \E k \in 1..Len(region[1]) :
                  /\ region[1][k] # <<row, col>>
                  /\ at(g, region[1][k][1], region[1][k][2]) = value
     THEN << error(row, col, <<"region", value>>) >>
     ELSE <<>>

\* a plausible slip: the region block left out
checkSudokuRules_noRegion(g, row, col, value, regs) ==
  LET rowErrors ==
        IF \E i \in Idx : i # col /\ at(g, row, i) = value
        THEN << error(row, col, <<"row", value>>) >> ELSE <<>>
      colErrors ==
        IF \E i \in Idx : i # row /\ at(g, i, col) = value
        THEN << error(row, col, <<"col", value>>) >> ELSE <<>>
  IN rowErrors \o colErrors

\* one violation per origin (row, column, region) in which another cell
\* holds value; the region is looked up only when regions were passed
checkSudokuRules(g, row, col, value, regs) ==
  LET rowErrors ==
        IF \E i \in Idx : i # col /\ at(g, row, i) = value
        THEN << error(row, col, <<"row", value>>) >> ELSE <<>>
      colErrors ==
        IF \E i \in Idx : i # row /\ at(g, i, col) = value
        THEN << error(row, col, <<"col", value>>) >> ELSE <<>>
      region ==
        IF regs # <<>> THEN Validator_findRegionContaining(row, col, regs[1])
        ELSE <<>>
      regionErrors ==
        IF /\ region # <<>>
           /\ \E k \in 1..Len(region[1]) :
                /\ region[1][k] # <<row, col>>
                /\ at(g, region[1][k][1], region[1][k][2]) = value
        THEN << error(row, col, <<"region", value>>) >> ELSE <<>>
  IN rowErrors \o colErrors \o regionErrors

\* a plausible slip: a clue is compared only when the current cell is filled
cellErrors_filledOnly(originalGrid, currentGrid, regs, row, col) ==
  LET originalValue == at(originalGrid, row, col)
      currentValue  == at(currentGrid, row, col)
  IN IF currentValue = Null THEN <<>>
     ELSE IF originalValue # Null /\ currentValue # originalValue
          THEN << error(row, col, <<"changed">>) >>
          ELSE checkSudokuRules(currentGrid, row, col, currentValue, regs)

\* body of the double loop of validate for one cell: a changed clue is
\* reported and the cell is left (continue); otherwise a filled cell is
\* checked against the rules
cellErrors(originalGrid, currentGrid, regs, row, col) ==
  LET originalValue == at(originalGrid, row, col)
      currentValue  == at(currentGrid, row, col)
  IN IF originalValue # Null /\ currentValue # originalValue
     THEN << error(row, col, <<"changed">>) >>
     ELSE IF currentValue # Null
          THEN checkSudokuRules(currentGrid, row, col, currentValue, regs)
          ELSE <<>>

RECURSIVE concatFrom(_, _)
\* errors.push(...) in loop order: the per-cell lists from index k on, joined
concatFrom(perCell, k) ==
  IF k > Len(perCell) THEN <<>> ELSE perCell[k] \o concatFrom(perCell, k + 1)

validate(originalGrid, currentGrid, regs) ==
  LET perCell == [k \in 1..81 |->
                   cellErrors(originalGrid, currentGrid, regs,
                              (k - 1) \div 9, (k - 1) % 9)]
      errors == concatFrom(perCell, 1)
  IN [isValid |-> Len(errors) = 0, errors |-> errors]

\* a plausible slip: the two tests after the loop exchanged
compareGrids_emptyFirst(originalGrid, solvedGrid, regs) ==
  LET hasEmpty == \E row, col \in Idx : at(solvedGrid, row, col) = Null
      hasError == \E row, col \in Idx :
                    /\ at(solvedGrid, row, col) # Null
                    /\ at(originalGrid, row, col) # Null
                    /\ at(originalGrid, row, col) # at(solvedGrid, row, col)
  IN IF hasEmpty THEN "incomplete"
     ELSE IF hasError THEN "incorrect"
     ELSE IF validate(originalGrid, solvedGrid, regs).isValid THEN "correct"
     ELSE "incorrect"

\* a plausible slip: the rules are not consulted once the clues agree
compareGrids_noValidate(originalGrid, solvedGrid, regs) ==
  LET hasEmpty == \E row, col \in Idx : at(solvedGrid, row, col) = Null
      hasError == \E row, col \in Idx :
                    /\ at(solvedGrid, row, col) # Null
                    /\ at(originalGrid, row, col) # Null
                    /\ at(originalGrid, row, col) # at(solvedGrid, row, col)
  IN IF hasError THEN "incorrect"
     ELSE IF hasEmpty THEN "incomplete"
     ELSE "correct"

\* hasEmpty: some cell of solvedGrid is null; hasError: some filled cell of
\* solvedGrid differs from a filled cell of originalGrid (else-if: an empty
\* cell of solvedGrid is never compared with the clue)
compareGrids(originalGrid, solvedGrid, regs) ==
  LET hasEmpty == \E row, col \in Idx : at(solvedGrid, row, col) = Null
      hasError == \E row, col \in Idx :
                    /\ at(solvedGrid, row, col) # Null
                    /\ at(originalGrid, row, col) # Null
                    /\ at(originalGrid, row, col) # at(solvedGrid, row, col)
  IN IF hasError THEN "incorrect"
     ELSE IF hasEmpty THEN "incomplete"
     ELSE IF validate(originalGrid, solvedGrid, regs).isValid THEN "correct"
     ELSE "incorrect"

(***************************************************************************)
(* Inputs.  SolvedGrid is the solution of the sample puzzle; an input grid *)
(* is SolvedGrid with the cells of Pool emptied or overwritten by a digit  *)
(* of PoolDigits.  (2,4) (2,5) (5,4) (5,5) hold 4 2 2 4 in SolvedGrid: a   *)
(* rectangle with two fillings under the 3x3 boxes and one under           *)
(* JigsawRegions, which exchanges (5,5) and (3,6) between boxes 4 and 5.   *)
(***************************************************************************)
SolvedGrid ==
  << <<5,3,4,6,7,8,9,1,2>>,
     <<6,7,2,1,9,5,3,4,8>>,
     <<1,9,8,3,4,2,5,6,7>>,
     <<8,5,9,7,6,1,4,2,3>>,
     <<4,2,6,8,5,3,7,9,1>>,
     <<7,1,3,9,2,4,8,5,6>>,
     <<9,6,1,5,3,7,2,8,4>>,
     <<2,8,7,4,1,9,6,3,5>>,
     <<3,4,5,2,8,6,1,7,9>> >>

Pool == << <<2,4>>, <<2,5>>, <<5,4>>, <<5,5>>, <<3,6>> >>
PoolDigits == {2, 4}

JigsawRegions ==
  [k \in 1..9 |->
    IF k = 5 THEN << <<3,3>>, <<3,4>>, <<3,5>>, <<4,3>>, <<4,4>>, <<4,5>>,
                     <<5,3>>, <<5,4>>, <<3,6>> >>
    ELSE IF k = 6 THEN << <<3,7>>, <<3,8>>, <<4,6>>, <<4,7>>, <<4,8>>,
                          <<5,6>>, <<5,7>>, <<5,8>>, <<5,5>> >>
    ELSE createStandardRegions[k]]

\* SolvedGrid with Pool[i] holding f[i]
withPool(f) ==
  [r \in 1..9 |-> [c \in 1..9 |->
    IF \E i \in 1..Len(Pool) : Pool[i] = <<r - 1, c - 1>>
    THEN f[CHOOSE i \in 1..Len(Pool) : Pool[i] = <<r - 1, c - 1>>]
    ELSE SolvedGrid[r][c]]]

PoolFillings ==
  { f \in [1..Len(Pool) -> PoolDigits \cup {Null}] :
      Cardinality({ i \in 1..Len(Pool) : f[i] = Null }) <= MaxEmpty }

InputGrids == { withPool(f) : f \in PoolFillings }

RegionInputs == { <<>>, <<createStandardRegions>>, <<JigsawRegions>> }

(***************************************************************************)
(* new SudokuSolver(grid, regions); solver.solve()                         *)
(***************************************************************************)
Init ==
  /\ \E g \in InputGrids : heap = g
  /\ callerGrid = [r \in 1..9 |-> r]
  /\ regions \in RegionInputs
  /\ grid = <<>>
  /\ thisRegions = <<>>
  /\ iterations = 0
  /\ maxIterations = DefaultMaxIterations
  /\ stack = <<>>
  /\ pc = "new"
  /\ result = <<>>
  /\ first = <<>>
  /\ vcall = <<>>
  /\ validationResult = <<>>
  /\ comparison = <<>>
  /\ lineData = <<>>
  /\ lineResults = <<>>
  /\ cellConnections = {}
  /\ bfs = <<>>
  /\ firstRegions = <<>>
  /\ ruleChecks = <<>>
  /\ appState = initialAppState
  /\ editableGrid = <<>>
  /\ isEditing = FALSE
  /\ preEditState = <<>>
  /\ uploads = <<>>
  /\ running = <<>>
  /\ editBase = <<>>

\* what a finished solve() leaves for comparison with a later one
outcome ==
  [result        |-> IF result = <<>> THEN <<>> ELSE << deref(heap, result[1]) >>,
   iterations    |-> iterations,
   maxIterations |-> maxIterations]

\* constructor, with the budget field set to b; a second solver on the same
\* input is built only with a larger budget than the first
Construct(b) ==
  /\ \/ pc = "new"
     \/ pc = "done" /\ first = <<>> /\ b > maxIterations
  /\ first' = IF pc = "done" THEN << outcome >> ELSE first
  /\ LET copy == copyGrid(heap, callerGrid)
     IN /\ heap' = copy.heap
        /\ grid' = copy.ref
  /\ thisRegions' = IF regions # <<>> THEN regions[1] ELSE createStandardRegions
  /\ iterations' = 0
  /\ maxIterations' = b
  /\ stack' = <<>>
  /\ result' = <<>>
  /\ pc' = "constructed"
  /\ UNCHANGED <<ruleChecks, uiVars, comparison, imageVars, callerGrid, regions, vcall, validationResult>>

\* solve(): reset the counter and call solveSudoku
Solve ==
  /\ pc = "constructed"
  /\ iterations' = 0
  /\ pc' = "call"
  /\ UNCHANGED <<ruleChecks, uiVars, comparison, imageVars, heap, callerGrid, regions, grid, thisRegions, maxIterations,
                 stack, result, first, vcall, validationResult>>

\* solveSudoku entry: count the invocation; over budget, return false
EnterOverBudget ==
  /\ pc = "call"
  /\ budgetExceeded(iterations + 1, maxIterations)
  /\ iterations' = iterations + 1
  /\ pc' = "returnFalse"
  /\ UNCHANGED <<ruleChecks, uiVars, comparison, imageVars, heap, callerGrid, regions, grid, thisRegions, maxIterations,
                 stack, result, first, vcall, validationResult>>

\* solveSudoku entry: the scan meets no null cell, return true
EnterComplete ==
  /\ pc = "call"
  /\ ~budgetExceeded(iterations + 1, maxIterations)
  /\ emptyCells(deref(heap, grid)) = {}
  /\ iterations' = iterations + 1
  /\ pc' = "returnTrue"
  /\ UNCHANGED <<ruleChecks, uiVars, comparison, imageVars, heap, callerGrid, regions, grid, thisRegions, maxIterations,
                 stack, result, first, vcall, validationResult>>

\* solveSudoku entry: the scan stops at the first null cell, num = 1
EnterCell ==
  /\ pc = "call"
  /\ ~budgetExceeded(iterations + 1, maxIterations)
  /\ emptyCells(deref(heap, grid)) # {}
  /\ iterations' = iterations + 1
  /\ LET p == firstEmpty(deref(heap, grid))
     IN stack' = Append(stack, [row |-> p[1], col |-> p[2], num |-> 1])
  /\ pc' = "loop"
  /\ UNCHANGED <<ruleChecks, uiVars, comparison, imageVars, heap, callerGrid, regions, grid, thisRegions, maxIterations,
                 result, first, vcall, validationResult>>

\* legal candidate: assign it and recurse
Place ==
  /\ pc = "loop"
  /\ top.num <= 9
  /\ isValidMove(deref(heap, grid), thisRegions, top.row, top.col, top.num)
  /\ heap' = writeCell(heap, grid, top.row, top.col, top.num)
  /\ pc' = "call"
  /\ UNCHANGED <<ruleChecks, uiVars, comparison, imageVars, callerGrid, regions, grid, thisRegions, iterations,
                 maxIterations, stack, result, first, vcall, validationResult>>

\* illegal candidate: num++
Skip ==
  /\ pc = "loop"
  /\ top.num <= 9
  /\ ~isValidMove(deref(heap, grid), thisRegions, top.row, top.col, top.num)
  /\ stack' = setNum(top.num + 1)
  /\ UNCHANGED <<ruleChecks, uiVars, comparison, imageVars, heap, callerGrid, regions, grid, thisRegions, iterations,
                 maxIterations, pc, result, first, vcall, validationResult>>

\* digit loop over: return false
Exhausted ==
  /\ pc = "loop"
  /\ top.num > 9
  /\ stack' = pop
  /\ pc' = "returnFalse"
  /\ UNCHANGED <<ruleChecks, uiVars, comparison, imageVars, heap, callerGrid, regions, grid, thisRegions, iterations,
                 maxIterations, result, first, vcall, validationResult>>

\* the recursive call returned true: return true
Propagate ==
  /\ pc = "returnTrue"
  /\ stack # <<>>
  /\ stack' = pop
  /\ UNCHANGED <<ruleChecks, uiVars, comparison, imageVars, heap, callerGrid, regions, grid, thisRegions, iterations,
                 maxIterations, pc, result, first, vcall, validationResult>>

\* the recursive call returned false: reset the cell, num++
Undo ==
  /\ pc = "returnFalse"
  /\ stack # <<>>
  /\ heap' = backtrack(heap, grid, top.row, top.col)
  /\ stack' = setNum(top.num + 1)
  /\ pc' = "loop"
  /\ UNCHANGED <<ruleChecks, uiVars, comparison, imageVars, callerGrid, regions, grid, thisRegions, iterations,
                 maxIterations, result, first, vcall, validationResult>>

\* the outermost solveSudoku returned: solve() returns this.grid or null
SolveReturn ==
  /\ pc \in {"returnTrue", "returnFalse"}
  /\ stack = <<>>
  /\ result' = IF pc = "returnTrue" THEN << grid >> ELSE <<>>
  /\ pc' = "done"
  /\ UNCHANGED <<ruleChecks, uiVars, comparison, imageVars, heap, callerGrid, regions, grid, thisRegions, iterations,
                 maxIterations, stack, first, vcall, validationResult>>

\* App: SudokuValidator.validate(originalGrid, solvedGrid, regions) after a
\* successful solve, or validate(solvedGrid, solvedGrid, regions)
ValidateSolved ==
  /\ pc = "done"
  /\ result # <<>>
  /\ \E o \in {callerGrid, result[1]} :
       vcall' = << [originalGrid |-> deref(heap, o),
                    currentGrid  |-> deref(heap, result[1]),
                    regions      |-> regions] >>
  /\ pc' = "validate"
  /\ UNCHANGED <<ruleChecks, uiVars, comparison, imageVars, heap, callerGrid, regions, solverVars, validationResult>>

\* SudokuValidator.validate
Validate ==
  /\ pc = "validate"
  /\ validationResult' =
       << validate(vcall[1].originalGrid, vcall[1].currentGrid, vcall[1].regions) >>
  /\ pc' = "validated"
  /\ UNCHANGED <<ruleChecks, uiVars, comparison, imageVars, heap, callerGrid, regions, solverVars, vcall>>

SolverStep ==
  \/ Solve
  \/ EnterOverBudget
  \/ EnterComplete
  \/ EnterCell
  \/ Place
  \/ Skip
  \/ Exhausted
  \/ Propagate
  \/ Undo
  \/ SolveReturn

Next ==
  \/ \E b \in Budgets : Construct(b)
  \/ SolverStep
  \/ ValidateSolved
  \/ Validate

Spec == Init /\ [][Next]_vars

(***************************************************************************)
(* The validator on its own: validate(original, candidate, regions).  The  *)
(* candidate is SolvedGrid with any filling of the rectangle, the original *)
(* is SolvedGrid with some cells of the rectangle emptied (a puzzle whose  *)
(* solution is SolvedGrid).                                                *)
(***************************************************************************)
Rect == SubSeq(Pool, 1, 4)

CandidateFillings ==
  { f \in [1..Len(Pool) -> PoolDigits \cup {Null}] :
      \A i \in 1..Len(Pool) :
        i > Len(Rect) => f[i] = at(SolvedGrid, Pool[i][1], Pool[i][2]) }

OriginalFillings ==
  { f \in CandidateFillings :
      \A i \in 1..Len(Pool) :
        f[i] \in {Null, at(SolvedGrid, Pool[i][1], Pool[i][2])} }

\* SolvedGrid with rows 0 and 3 exchanged: every row and column still holds
\* 1..9 once, the 3x3 boxes of the two bands do not
RowSwapped ==
  [r \in 1..9 |-> SolvedGrid[IF r = 1 THEN 4 ELSE IF r = 4 THEN 1 ELSE r]]

InitV ==
  /\ heap = <<>>
  /\ callerGrid = <<>>
  /\ regions = <<>>
  /\ grid = <<>>
  /\ thisRegions = <<>>
  /\ iterations = 0
  /\ maxIterations = DefaultMaxIterations
  /\ stack = <<>>
  /\ pc = "validate"
  /\ result = <<>>
  /\ first = <<>>
  /\ \/ \E fo \in OriginalFillings, fc \in CandidateFillings, regs \in RegionInputs :
          vcall = << [originalGrid |-> withPool(fo),
                      currentGrid  |-> withPool(fc),
                      regions      |-> regs] >>
     \/ \E regs \in RegionInputs :
          vcall = << [originalGrid |-> RowSwapped,
                      currentGrid  |-> RowSwapped,
                      regions      |-> regs] >>
  /\ validationResult = <<>>
  /\ comparison = <<>>
  /\ lineData = <<>>
  /\ lineResults = <<>>
  /\ cellConnections = {}
  /\ bfs = <<>>
  /\ firstRegions = <<>>
  /\ ruleChecks = <<>>
  /\ appState = initialAppState
  /\ editableGrid = <<>>
  /\ isEditing = FALSE
  /\ preEditState = <<>>
  /\ uploads = <<>>
  /\ running = <<>>
  /\ editBase = <<>>

\* SudokuValidator.compareGrids on the same arguments
CompareGrids ==
  /\ pc = "validate"
  /\ comparison' =
       << compareGrids(vcall[1].originalGrid, vcall[1].currentGrid, vcall[1].regions) >>
  /\ pc' = "compared"
  /\ UNCHANGED <<ruleChecks, uiVars, heap, callerGrid, regions, solverVars, vcall, validationResult,
                 imageVars>>

NextV ==
  \/ Validate
  \/ CompareGrids

SpecV == InitV /\ [][NextV]_vars

(***************************************************************************)
(* The Sudoku rules, stated on sets of cells, independently of the loops   *)
(* of the solver and of the validator.                                     *)
(***************************************************************************)
cell(g, p) == at(g, p[1], p[2])

\* the regions a call works with: the ones passed, else the 3x3 boxes
EffectiveRegions(regs) == IF regs # <<>> THEN regs[1] ELSE createStandardRegions

RegionSet(region) == { region[i] : i \in 1..Len(region) }

\* 9 regions of 9 positions in which every cell of the grid occurs once
IsPartition(regs) ==
  /\ Len(regs) = 9
  /\ \A k \in 1..9 : Len(regs[k]) = 9
  /\ \A p \in Cells :
       Cardinality({ k \in 1..9 : p \in RegionSet(regs[k]) }) = 1

Units(regs) ==
  { { <<r, c>> : c \in Idx } : r \in Idx }
    \cup { { <<r, c>> : r \in Idx } : c \in Idx }
    \cup { RegionSet(regs[k]) : k \in 1..Len(regs) }

\* no two distinct filled cells of one row, column or region hold one digit
NoDuplicates(g, regs) ==
  \A u \in Units(regs) : \A d \in Digits :
    Cardinality({ p \in u : cell(g, p) = d }) <= 1

Complete(g) == \A p \in Cells : cell(g, p) # Null

\* every row, column and region holds each digit exactly once
EachDigitOnce(g, regs) ==
  \A u \in Units(regs) : \A d \in Digits :
    Cardinality({ p \in u : cell(g, p) = d }) = 1

\* g with the cells of DOMAIN f holding f
fill(g, f) ==
  [r \in 1..9 |-> [c \in 1..9 |->
    IF <<r - 1, c - 1>> \in DOMAIN f THEN f[<<r - 1, c - 1>>] ELSE g[r][c]]]

\* the digits no filled cell of a unit of p holds
freeDigits(g, regs, p) ==
  { d \in Digits :
      \A u \in Units(regs) : p \in u => \A q \in u : cell(g, q) # d }

\* some assignment of digits to the empty cells of g breaks no rule; a
\* completion can only use, at an empty cell, a digit free there
HasCompletion(g, regs) ==
  LET E == emptyCells(g)
      D == UNION { freeDigits(g, regs, p) : p \in E }
  IN \E f \in [E -> D] : NoDuplicates(fill(g, f), regs)

input == deref(heap, callerGrid)
working == deref(heap, grid)
returned == IF result = <<>> THEN <<>> ELSE << deref(heap, result[1]) >>

\* the precondition of solve(): regions partition the grid, clues conform
ValidInput ==
  /\ IsPartition(EffectiveRegions(regions))
  /\ NoDuplicates(input, EffectiveRegions(regions))

overBudget == iterations > maxIterations

(***************************************************************************)
(* Claims.                                                                 *)
(***************************************************************************)

\* C1: when solve() returns a grid for an input with valid regions and
\* rule-conformant clues, the grid has no empty cell and every row, column
\* and region holds each digit 1..9 exactly once.
C1_SolvedGridConforms ==
  (pc = "done" /\ result # <<>> /\ ValidInput) =>
    /\ Complete(returned[1])
    /\ EachDigitOnce(returned[1], EffectiveRegions(regions))

\* a successful solve of the rectangle under the jigsaw regions, where the
\* first filling tried breaks a region and the search had to backtrack
C1_Witness ==
  /\ pc = "done" /\ result # <<>> /\ ValidInput
  /\ regions = <<JigsawRegions>>
  /\ Cardinality(emptyCells(input)) >= 4
  /\ iterations > 5

\* C2: for an input with valid regions and rule-conformant clues, if a
\* rule-conformant completion exists and the budget was not exceeded, solve()
\* returns a grid; and if solve() returns null without the counter exceeding
\* the budget, no rule-conformant completion of the input exists.
C2_SearchIsComplete ==
  (pc = "done" /\ ~overBudget /\ ValidInput) =>
    (HasCompletion(input, EffectiveRegions(regions)) <=> result # <<>>)

\* an exhausted search: null within the budget on a conformant input with
\* several empty cells
C2_Witness ==
  /\ pc = "done" /\ ~overBudget /\ ValidInput
  /\ result = <<>>
  /\ Cardinality(emptyCells(input)) >= 3
  /\ iterations >= 3

\* a completion found only after backtracking
C2_WitnessFound ==
  /\ pc = "done" /\ ~overBudget /\ ValidInput
  /\ result # <<>>
  /\ iterations > Cardinality(emptyCells(input)) + 1

outcomeKind(res, it, max) ==
  IF res # <<>> THEN "Solved"
  ELSE IF it > max THEN "BudgetExceeded" ELSE "Unsatisfiable"

\* C3: a failed solve tells the caller why it failed: BudgetExceeded and
\* Unsatisfiable are distinguishable in the value solve() returns, so two
\* solves that return the same value ended for the same reason.
C3_FailureReasonReturned ==
  (pc = "done" /\ first # <<>>) =>
    (first[1].result = returned =>
       outcomeKind(first[1].result, first[1].iterations, first[1].maxIterations)
         = outcomeKind(returned, iterations, maxIterations))

\* C4: budget monotonicity, for the same grid and regions and b1 < b2:
\* (a) if the solve under b2 exhausts the search, the solve under b1 does not
\* succeed; (b) if the solve under b1 succeeds, the solve under b2 succeeds
\* with the same grid; (c) a success under b2 that is a failure under b1 is a
\* budget-exceeded failure.
C4_BudgetMonotone ==
  (pc = "done" /\ first # <<>>) =>
    /\ first[1].maxIterations < maxIterations
    /\ (result = <<>> /\ ~overBudget) => first[1].result = <<>>
    /\ first[1].result # <<>> => returned = first[1].result
    /\ (result # <<>> /\ first[1].result = <<>>) =>
          first[1].iterations > first[1].maxIterations

\* the lower budget turned a success into a budget-exceeded failure
C4_Witness ==
  /\ pc = "done" /\ first # <<>>
  /\ result # <<>>
  /\ first[1].result = <<>>
  /\ first[1].iterations > first[1].maxIterations

\* C5: solve() works on a private copy: no step writes the caller's grid,
\* which therefore has the same cells after solve() as before construction,
\* and the regions passed in are never modified.
C5_CallerGridUntouched ==
  [][ /\ deref(heap', callerGrid') = deref(heap, callerGrid)
      /\ regions' = regions ]_vars

\* solve() has returned a grid that differs from the caller's
C5_Witness ==
  /\ pc = "done" /\ result # <<>>
  /\ returned[1] # input

\* C6: at every step of the search and in the returned grid, every cell
\* filled in the input holds its input digit.
C6_CluesKept ==
  grid # <<>> =>
    \A p \in Cells : cell(input, p) # Null => cell(working, p) = cell(input, p)

\* in the middle of a search, after a reset, two frames deep
C6_Witness ==
  /\ pc = "loop" /\ Len(stack) >= 2
  /\ top.num > 1
  /\ \E p \in Cells : cell(input, p) = Null /\ cell(working, p) # Null

(***************************************************************************)
(* Claims about SudokuValidator.validate.                                  *)
(***************************************************************************)
vOriginal == vcall[1].originalGrid
vCurrent == vcall[1].currentGrid
vRegions == vcall[1].regions
vErrors == validationResult[1].errors

\* original is filled at p and the candidate holds something else there
changedClue(o, c, p) == cell(o, p) # Null /\ cell(c, p) # cell(o, p)

reportedAt(errs, p) ==
  \E i \in 1..Len(errs) : errs[i].row = p[1] /\ errs[i].col = p[2]

reported(errs, p, message) ==
  \E i \in 1..Len(errs) :
    errs[i] = [row |-> p[1], col |-> p[2], message |-> message]

rowDuplicate(c, p) == \E j \in Idx \ {p[2]} : at(c, p[1], j) = cell(c, p)

colDuplicate(c, p) == \E i \in Idx \ {p[1]} : at(c, i, p[2]) = cell(c, p)

\* another cell of a supplied region of p holds the digit of p
regionDuplicate(c, regs, p) ==
  /\ regs # <<>>
  /\ \E k \in 1..Len(regs[1]) :
       /\ p \in RegionSet(regs[1][k])
       /\ \E q \in RegionSet(regs[1][k]) \ {p} : cell(c, q) = cell(c, p)

\* C7: with valid regions supplied, isValid is true exactly when the
\* violation list is empty, and that is exactly when no clue of original
\* differs in candidate and no two distinct filled cells of candidate in one
\* row, column or region hold the same digit.
C7_ValidIffNoViolation ==
  (pc = "validated" /\ vRegions # <<>> /\ IsPartition(vRegions[1])) =>
    /\ validationResult[1].isValid <=> vErrors = <<>>
    /\ vErrors = <<>> <=>
         /\ \A p \in Cells : ~changedClue(vOriginal, vCurrent, p)
         /\ NoDuplicates(vCurrent, vRegions[1])

\* a candidate that fills cells of the original and is found valid under the
\* jigsaw regions
C7_Witness ==
  /\ pc = "validated" /\ vRegions = <<JigsawRegions>>
  /\ validationResult[1].isValid
  /\ vOriginal # vCurrent

\* C8: for every position where original is filled and candidate holds a
\* different value (another digit or empty), validate reports a violation at
\* that (row, col), whether or not the candidate conforms to the rules.
C8_ChangedClueReported ==
  pc = "validated" =>
    \A p \in Cells :
      changedClue(vOriginal, vCurrent, p) => reportedAt(vErrors, p)

\* a rule-conformant candidate in which one clue was emptied and another
\* replaced by a different digit
C8_Witness ==
  /\ pc = "validated"
  /\ NoDuplicates(vCurrent, EffectiveRegions(vRegions))
  /\ \E p \in Cells : changedClue(vOriginal, vCurrent, p) /\ cell(vCurrent, p) = Null
  /\ \E p \in Cells : changedClue(vOriginal, vCurrent, p) /\ cell(vCurrent, p) # Null

\* C9: validate(grid, grid, regions) on a fully filled grid in which every
\* row, column and region holds 1..9 exactly once returns isValid = true and
\* no violation; and validate(original, solved, regions) on the grid a
\* successful solve returned for a valid input reports no violation.
C9_SolvedGridValidates ==
  ( /\ pc = "validated"
    /\ \/ /\ vOriginal = vCurrent
          /\ Complete(vCurrent)
          /\ EachDigitOnce(vCurrent, EffectiveRegions(vRegions))
       \/ /\ result # <<>>
          /\ vOriginal = input
          /\ vCurrent = returned[1]
          /\ vRegions = regions
          /\ ValidInput )
    => (validationResult[1].isValid /\ vErrors = <<>>)

\* the solution of a puzzle with empty cells, validated against the puzzle
\* under the jigsaw regions
C9_Witness ==
  /\ pc = "validated" /\ result # <<>> /\ ValidInput
  /\ regions = <<JigsawRegions>>
  /\ vOriginal = input /\ vCurrent = returned[1]
  /\ vOriginal # vCurrent
  /\ validationResult[1].isValid

\* the violations C10 asks for at a filled cell p of the candidate
originsReported(c, regs, errs, p) ==
  /\ rowDuplicate(c, p) => reported(errs, p, <<"row", cell(c, p)>>)
  /\ colDuplicate(c, p) => reported(errs, p, <<"col", cell(c, p)>>)
  /\ regionDuplicate(c, regs, p) => reported(errs, p, <<"region", cell(c, p)>>)

\* C10 as stated: for every filled cell of the candidate and each of row,
\* column and region in which another cell holds the same digit, validate
\* records a violation at that cell naming that origin.
C10_EveryDuplicateReported ==
  pc = "validated" =>
    \A p \in Cells :
      cell(vCurrent, p) # Null => originsReported(vCurrent, vRegions, vErrors, p)

\* C10 amended: the same for every filled cell of the candidate that is not
\* a changed clue (original is empty there or holds the same digit).
C10_DuplicateReportedUnlessChangedClue ==
  pc = "validated" =>
    \A p \in Cells :
      (cell(vCurrent, p) # Null /\ ~changedClue(vOriginal, vCurrent, p))
        => originsReported(vCurrent, vRegions, vErrors, p)

\* two equal digits in one row, both reported, and a cell whose only
\* duplicate is in its jigsaw region, reported as such
C10_Witness ==
  /\ pc = "validated" /\ vRegions = <<JigsawRegions>>
  /\ \E p, q \in Cells :
       /\ p # q /\ p[1] = q[1]
       /\ cell(vCurrent, p) # Null /\ cell(vCurrent, p) = cell(vCurrent, q)
       /\ ~changedClue(vOriginal, vCurrent, p)
       /\ ~changedClue(vOriginal, vCurrent, q)
       /\ reported(vErrors, p, <<"row", cell(vCurrent, p)>>)
       /\ reported(vErrors, q, <<"row", cell(vCurrent, q)>>)
  /\ \E p \in Cells :
       /\ cell(vCurrent, p) # Null
       /\ ~changedClue(vOriginal, vCurrent, p)
       /\ ~rowDuplicate(vCurrent, p) /\ ~colDuplicate(vCurrent, p)
       /\ regionDuplicate(vCurrent, vRegions, p)
       /\ reported(vErrors, p, <<"region", cell(vCurrent, p)>>)

(***************************************************************************)
(* Claims about SudokuValidator.compareGrids.                              *)
(***************************************************************************)
\* the candidate holds, at a clue of the original, a different digit
overwrittenClue(o, c, p) ==
  cell(o, p) # Null /\ cell(c, p) # Null /\ cell(c, p) # cell(o, p)

\* C11 as stated: compareGrids returns 'incorrect' whenever a clue of
\* original has a different value in solved, an emptied clue included, also
\* when solved has empty cells; and 'incomplete' whenever solved has an empty
\* cell and no clue was altered.
C11_AlteredClueIsIncorrect ==
  pc = "compared" =>
    /\ (\E p \in Cells : changedClue(vOriginal, vCurrent, p))
          => comparison[1] = "incorrect"
    /\ ( /\ ~Complete(vCurrent)
         /\ \A p \in Cells : ~changedClue(vOriginal, vCurrent, p) )
          => comparison[1] = "incomplete"

\* C11 amended: compareGrids returns 'incorrect' whenever a clue of original
\* holds a different digit in solved, also when solved has empty cells; and
\* 'incomplete' whenever solved has an empty cell and no clue holds a
\* different digit (a clue that was emptied counts as an empty cell).
C11_OverwrittenClueIsIncorrect ==
  pc = "compared" =>
    /\ (\E p \in Cells : overwrittenClue(vOriginal, vCurrent, p))
          => comparison[1] = "incorrect"
    /\ ( /\ ~Complete(vCurrent)
         /\ \A p \in Cells : ~overwrittenClue(vOriginal, vCurrent, p) )
          => comparison[1] = "incomplete"

\* a solved grid with an empty cell and an overwritten clue is 'incorrect'
C11_Witness ==
  /\ pc = "compared"
  /\ ~Complete(vCurrent)
  /\ \E p \in Cells : overwrittenClue(vOriginal, vCurrent, p)
  /\ comparison[1] = "incorrect"

\* C12: compareGrids returns 'correct' exactly when solved has no empty
\* cell, agrees with original on every clue and validate(original, solved,
\* regions) is valid; a complete grid that keeps every clue and has two equal
\* digits in one row, column or supplied region is 'incorrect'.
C12_CorrectIffCompleteAndValid ==
  pc = "compared" =>
    /\ comparison[1] = "correct" <=>
         /\ Complete(vCurrent)
         /\ \A p \in Cells : ~changedClue(vOriginal, vCurrent, p)
         /\ validate(vOriginal, vCurrent, vRegions).isValid
    /\ ( /\ Complete(vCurrent)
         /\ \A p \in Cells : ~changedClue(vOriginal, vCurrent, p)
         /\ \E p \in Cells : \/ rowDuplicate(vCurrent, p)
                              \/ colDuplicate(vCurrent, p)
                              \/ regionDuplicate(vCurrent, vRegions, p) )
          => comparison[1] = "incorrect"

\* a complete grid that keeps the clues and breaks only a jigsaw region
C12_Witness ==
  /\ pc = "compared" /\ vRegions = <<JigsawRegions>>
  /\ Complete(vCurrent)
  /\ \A p \in Cells : ~changedClue(vOriginal, vCurrent, p)
  /\ \A p \in Cells : ~rowDuplicate(vCurrent, p) /\ ~colDuplicate(vCurrent, p)
  /\ \E p \in Cells : regionDuplicate(vCurrent, vRegions, p)
  /\ comparison[1] = "incorrect"

\* the canonical 3x3 box of a cell
boxOf(p) == { q \in Cells : q[1] \div 3 = p[1] \div 3 /\ q[2] \div 3 = p[2] \div 3 }

\* C13 (validator): validate(g, g) without regions reports a violation at
\* both of two equal digits in one 3x3 box, also when they share no row and
\* no column.
C13_ValidatorEnforcesBoxes ==
  (pc = "validated" /\ vRegions = <<>> /\ vOriginal = vCurrent) =>
    \A p \in Cells : \A q \in boxOf(p) \ {p} :
      (cell(vCurrent, p) # Null /\ cell(vCurrent, p) = cell(vCurrent, q))
        => reportedAt(vErrors, p) /\ reportedAt(vErrors, q)

\* C13 (solver): solve() without regions never writes a digit that another
\* cell of the 3x3 box of the cell holds.
C13_SolverEnforcesBoxes ==
  [][ (pc = "loop" /\ pc' = "call" /\ regions = <<>>) =>
        \A q \in boxOf(<<top.row, top.col>>) :
          cell(working, q) # top.num ]_vars

(***************************************************************************)
(* ImageProcessor: from the ink counts of the boundary segments to the     *)
(* regions (src/src/utils/imageProcessor.ts, countLinePixels to            *)
(* findConnectedRegions).  horizontalLines[row][col] is the segment of     *)
(* horizontal line row (0..9) above cell column col; verticalLines[col][row]*)
(* the segment of vertical line col (0..9) left of cell row row.  Both are *)
(* sequences of 10 sequences of 9, read through seg.                       *)
(***************************************************************************)
\* the largest ink count of a segment in the inputs
MaxCount == 5

LineIdx == 0..9

seg(m, line, k) == m[line + 1][k + 1]

\* cellIndex(row, col) of buildCellConnectionGraph
cellIndex(row, col) == row * 9 + col

\* the [row, col] findConnectedRegions pushes for a cell index
cellOf(index) == << index \div 9, index % 9 >>

\* lines.flat() of a 10 x 9 array
flat(m) == [i \in 1..90 |-> m[((i - 1) \div 9) + 1][((i - 1) % 9) + 1]]

\* entry index (from 0) of allCounts.sort((a, b) => a - b): the least value
\* that more than index entries do not exceed
sortedCounts(allCounts, index) ==
  Min({ x \in { allCounts[j] : j \in 1..Len(allCounts) } :
          Cardinality({ j \in 1..Len(allCounts) : allCounts[j] <= x }) > index })

\* sortedCounts[Math.floor(sortedCounts.length / 2)]
medianOf(h, v) ==
  LET allCounts == flat(h) \o flat(v)
  IN sortedCounts(allCounts, Len(allCounts) \div 2)

\* median * 1.5, kept in halves (twice the source's value) to stay an integer
thickThresholdOf(h, v) == 3 * medianOf(h, v)

\* a plausible slip: >= in the comparison with the threshold
isThick_inclusive(count, thickThreshold) == 2 * count >= thickThreshold

\* count > thickThreshold, with the threshold in halves
isThick(count, thickThreshold) == 2 * count > thickThreshold

classifyLines(data) ==
  [thickHorizontal |->
     [row \in 1..Len(data.horizontalLines) |->
       [col \in 1..Len(data.horizontalLines[row]) |->
         isThick(data.horizontalLines[row][col], data.thickThreshold)]],
   thickVertical |->
     [col \in 1..Len(data.verticalLines) |->
       [row \in 1..Len(data.verticalLines[col]) |->
         isThick(data.verticalLines[col][row], data.thickThreshold)]]]

\* a plausible slip: the last line taken to be line 8
enforceBorderThickLines_offByOne(res) ==
  [thickHorizontal |->
     [row \in 1..Len(res.thickHorizontal) |->
       IF row = 1 \/ (Len(res.thickHorizontal) > 8 /\ row = 9)
       THEN [col \in 1..Len(res.thickHorizontal[row]) |-> TRUE]
       ELSE res.thickHorizontal[row]],
   thickVertical |->
     [col \in 1..Len(res.thickVertical) |->
       IF col = 1 \/ (Len(res.thickVertical) > 8 /\ col = 9)
       THEN [row \in 1..Len(res.thickVertical[col]) |-> TRUE]
       ELSE res.thickVertical[col]]]

\* lines 0 and 9 of both directions set to true, the rest untouched
enforceBorderThickLines(res) ==
  [thickHorizontal |->
     [row \in 1..Len(res.thickHorizontal) |->
       IF row = 1 \/ (Len(res.thickHorizontal) > 9 /\ row = 10)
       THEN [col \in 1..Len(res.thickHorizontal[row]) |-> TRUE]
       ELSE res.thickHorizontal[row]],
   thickVertical |->
     [col \in 1..Len(res.thickVertical) |->
       IF col = 1 \/ (Len(res.thickVertical) > 9 /\ col = 10)
       THEN [row \in 1..Len(res.thickVertical[col]) |-> TRUE]
       ELSE res.thickVertical[col]]]

\* a plausible slip: only the connections inside a row are entered
buildCellConnectionGraph_acrossOnly(thickHorizontal, thickVertical) ==
  LET across == { <<row, col>> \in Idx \X (0..7) :
                    /\ Len(thickVertical) > col + 1
                    /\ Len(thickVertical[col + 2]) > row
                    /\ ~seg(thickVertical, col + 1, row) }
  IN    { <<cellIndex(p[1], p[2]), cellIndex(p[1], p[2] + 1)>> : p \in across }
   \cup { <<cellIndex(p[1], p[2] + 1), cellIndex(p[1], p[2])>> : p \in across }

\* a plausible slip: the two index positions of thickVertical and of
\* thickHorizontal exchanged
buildCellConnectionGraph_transposed(thickHorizontal, thickVertical) ==
  LET across == { <<row, col>> \in Idx \X (0..7) :
                    ~seg(thickVertical, row + 1, col) }
      down   == { <<row, col>> \in (0..7) \X Idx :
                    ~seg(thickHorizontal, col + 1, row) }
  IN    { <<cellIndex(p[1], p[2]), cellIndex(p[1], p[2] + 1)>> : p \in across }
   \cup { <<cellIndex(p[1], p[2] + 1), cellIndex(p[1], p[2])>> : p \in across }
   \cup { <<cellIndex(p[1], p[2]), cellIndex(p[1] + 1, p[2])>> : p \in down }
   \cup { <<cellIndex(p[1] + 1, p[2]), cellIndex(p[1], p[2])>> : p \in down }

\* the pairs <<index1, index2>> with connections[index1][index2] = true:
\* (row, col) and (row, col+1) when thickVertical[col+1][row] is false,
\* (row, col) and (row+1, col) when thickHorizontal[row+1][col] is false
buildCellConnectionGraph(thickHorizontal, thickVertical) ==
  LET across == { <<row, col>> \in Idx \X (0..7) :
                    /\ Len(thickVertical) > col + 1
                    /\ Len(thickVertical[col + 2]) > row
                    /\ ~seg(thickVertical, col + 1, row) }
      down   == { <<row, col>> \in (0..7) \X Idx :
                    /\ Len(thickHorizontal) > row + 1
                    /\ Len(thickHorizontal[row + 2]) > col
                    /\ ~seg(thickHorizontal, row + 1, col) }
  IN    { <<cellIndex(p[1], p[2]), cellIndex(p[1], p[2] + 1)>> : p \in across }
   \cup { <<cellIndex(p[1], p[2] + 1), cellIndex(p[1], p[2])>> : p \in across }
   \cup { <<cellIndex(p[1], p[2]), cellIndex(p[1] + 1, p[2])>> : p \in down }
   \cup { <<cellIndex(p[1] + 1, p[2]), cellIndex(p[1], p[2])>> : p \in down }

RECURSIVE ascending(_)
\* the members of a set of numbers in increasing order (the order in which
\* the neighborIndex loop meets them)
ascending(S) ==
  IF S = {} THEN <<>> ELSE << Min(S) >> \o ascending(S \ {Min(S)})

\* locals of findConnectedRegions before the for loop
newSearch ==
  [visited   |-> [i \in 0..80 |-> FALSE],
   regions   |-> <<>>,
   region    |-> <<>>,
   queue     |-> <<>>,
   startCell |-> 0]

\* a plausible slip: the start cell is queued but not marked visited
beginRegion_unmarked(b) ==
  [b EXCEPT !.region = <<>>, !.queue = << b.startCell >>]

\* region = [], queue = [startCell], visited[startCell] = true
beginRegion(b) ==
  [b EXCEPT !.region = <<>>,
            !.queue = << b.startCell >>,
            !.visited[b.startCell] = TRUE]

\* one turn of the while loop: shift the queue, push [row, col], then mark
\* and queue, in index order, the unvisited cells connected to the cell
visit(b, connections) ==
  LET index == Head(b.queue)
      neighbors == { neighborIndex \in 0..80 :
                       /\ ~b.visited[neighborIndex]
                       /\ <<index, neighborIndex>> \in connections }
  IN [b EXCEPT !.region = Append(@, cellOf(index)),
               !.queue = Tail(@) \o ascending(neighbors),
               !.visited = [i \in 0..80 |-> @[i] \/ i \in neighbors]]

\* a plausible slip: unshift instead of push
pushRegion_front(regs, region) == << region >> \o regs

\* regions.push(region)
pushRegion(regs, region) == Append(regs, region)

(***************************************************************************)
(* Inputs of the image pipeline: the ink counts of a drawn partition.  A   *)
(* drawing is a labelling of the cells (a boundary is drawn thick where    *)
(* the labels differ) plus extra thick segments inside a region; inner     *)
(* thin segments measure thin, thick ones thick, the perimeter perimeter.  *)
(***************************************************************************)
labelsOf(regs) ==
  [r \in 1..9 |-> [c \in 1..9 |->
    CHOOSE k \in 1..Len(regs) : <<r - 1, c - 1>> \in { regs[k][i] : i \in 1..Len(regs[k]) }]]

StandardLabels == labelsOf(createStandardRegions)
JigsawLabels == labelsOf(JigsawRegions)
RowLabels == [r \in 1..9 |-> [c \in 1..9 |-> r]]
ColumnLabels == [r \in 1..9 |-> [c \in 1..9 |-> c]]
OneLabel == [r \in 1..9 |-> [c \in 1..9 |-> 1]]
SingletonLabels == [r \in 1..9 |-> [c \in 1..9 |-> 9 * r + c]]
\* boxes 0 and 1 drawn as one region of 18 cells
MergedLabels ==
  [r \in 1..9 |-> [c \in 1..9 |->
    IF StandardLabels[r][c] = 2 THEN 1 ELSE StandardLabels[r][c]]]
\* the centre cell walled off inside its box
PocketLabels ==
  [r \in 1..9 |-> [c \in 1..9 |->
    IF r = 5 /\ c = 5 THEN 10 ELSE StandardLabels[r][c]]]

\* a thick stroke inside box 0: vertical line 1 at row 0
Stroke == { <<"v", 1, 0>> }

Drawings ==
  { [labels |-> l, extra |-> {}] :
      l \in { StandardLabels, JigsawLabels, RowLabels, ColumnLabels, OneLabel,
              SingletonLabels, MergedLabels, PocketLabels } }
    \cup { [labels |-> StandardLabels, extra |-> Stroke] }

ThinCounts == {0, 2}
ThickCounts == {0, 3, 4}
PerimeterCounts == {0, MaxCount}

\* horizontalLines and verticalLines measured on a drawing
countsOf(d, thin, thick, perimeter) ==
  [horizontalLines |->
     [row \in 1..10 |-> [col \in 1..9 |->
       IF row \in {1, 10} THEN perimeter
       ELSE IF \/ d.labels[row - 1][col] # d.labels[row][col]
               \/ <<"h", row - 1, col - 1>> \in d.extra
            THEN thick ELSE thin]],
   verticalLines |->
     [col \in 1..10 |-> [row \in 1..9 |->
       IF col \in {1, 10} THEN perimeter
       ELSE IF \/ d.labels[row][col - 1] # d.labels[row][col]
               \/ <<"v", col - 1, row - 1>> \in d.extra
            THEN thick ELSE thin]]]

LineInputs ==
  { countsOf(d, thin, thick, perimeter) :
      d \in Drawings, thin \in ThinCounts, thick \in ThickCounts,
      perimeter \in PerimeterCounts }

\* the thickness map of a drawing, as an argument of
\* constructRegionsFromThickLines
thickOf(d, perimeter) ==
  LET counts == countsOf(d, 0, 1, IF perimeter THEN 1 ELSE 0)
  IN [thickHorizontal |->
        [row \in 1..10 |-> [col \in 1..9 |-> counts.horizontalLines[row][col] = 1]],
      thickVertical |->
        [col \in 1..10 |-> [row \in 1..9 |-> counts.verticalLines[col][row] = 1]]]

\* thickness maps that are the drawing of no partition
Scribbles ==
  { [thickHorizontal |->
       [row \in 1..10 |-> [col \in 1..9 |-> (row * k + col * 3) % 4 = 0]],
     thickVertical |->
       [col \in 1..10 |-> [row \in 1..9 |-> (col * 5 + row * k) % 3 = 0]]] :
      k \in {1, 2} }

ThickInputs ==
  { thickOf(d, perimeter) : d \in Drawings, perimeter \in BOOLEAN } \cup Scribbles

(***************************************************************************)
(* detectLinesAdvanced and constructRegionsFromThickLines, step by step.   *)
(***************************************************************************)
InitR ==
  /\ heap = <<>>
  /\ callerGrid = <<>>
  /\ regions = <<>>
  /\ grid = <<>>
  /\ thisRegions = <<>>
  /\ iterations = 0
  /\ maxIterations = DefaultMaxIterations
  /\ stack = <<>>
  /\ result = <<>>
  /\ first = <<>>
  /\ vcall = <<>>
  /\ validationResult = <<>>
  /\ comparison = <<>>
  /\ \/ /\ pc = "countLinePixels"
        /\ lineData \in LineInputs
        /\ lineResults = <<>>
     \/ /\ pc = "constructRegions"
        /\ lineData = <<>>
        /\ lineResults \in ThickInputs
  /\ cellConnections = {}
  /\ bfs = <<>>
  /\ firstRegions = <<>>
  /\ ruleChecks = <<>>
  /\ appState = initialAppState
  /\ editableGrid = <<>>
  /\ isEditing = FALSE
  /\ preEditState = <<>>
  /\ uploads = <<>>
  /\ running = <<>>
  /\ editBase = <<>>

appVars == <<heap, callerGrid, regions, solverVars, vcall, validationResult, comparison>>

\* countLinePixels, after the counting loops: the dynamic threshold
CountLinePixels ==
  /\ pc = "countLinePixels"
  /\ lineData' =
       [horizontalLines |-> lineData.horizontalLines,
        verticalLines   |-> lineData.verticalLines,
        thickThreshold  |-> thickThresholdOf(lineData.horizontalLines,
                                             lineData.verticalLines)]
  /\ pc' = "classifyLines"
  /\ UNCHANGED <<ruleChecks, uiVars, appVars, lineResults, cellConnections, bfs, firstRegions>>

ClassifyLines ==
  /\ pc = "classifyLines"
  /\ lineResults' = classifyLines(lineData)
  /\ pc' = "enforceBorderThickLines"
  /\ UNCHANGED <<ruleChecks, uiVars, appVars, lineData, cellConnections, bfs, firstRegions>>

EnforceBorderThickLines ==
  /\ pc = "enforceBorderThickLines"
  /\ lineResults' = enforceBorderThickLines(lineResults)
  /\ pc' = "constructRegions"
  /\ UNCHANGED <<ruleChecks, uiVars, appVars, lineData, cellConnections, bfs, firstRegions>>

\* constructRegionsFromThickLines: the graph, then the locals of the search
BuildCellConnectionGraph ==
  /\ pc = "constructRegions"
  /\ cellConnections' =
       buildCellConnectionGraph(lineResults.thickHorizontal, lineResults.thickVertical)
  /\ bfs' = newSearch
  /\ lineData' = <<>>
  /\ pc' = "scan"
  /\ UNCHANGED <<ruleChecks, uiVars, appVars, lineResults, firstRegions>>

\* for loop: startCell already visited
SkipVisited ==
  /\ pc = "scan"
  /\ bfs.startCell < 81
  /\ bfs.visited[bfs.startCell]
  /\ bfs' = [bfs EXCEPT !.startCell = @ + 1]
  /\ UNCHANGED <<ruleChecks, uiVars, appVars, pc, lineData, lineResults, cellConnections, firstRegions>>

\* for loop: startCell not visited, a new region begins
StartRegion ==
  /\ pc = "scan"
  /\ bfs.startCell < 81
  /\ ~bfs.visited[bfs.startCell]
  /\ bfs' = beginRegion(bfs)
  /\ pc' = "while"
  /\ UNCHANGED <<ruleChecks, uiVars, appVars, lineData, lineResults, cellConnections, firstRegions>>

\* while (queue.length > 0)
Visit ==
  /\ pc = "while"
  /\ bfs.queue # <<>>
  /\ bfs' = visit(bfs, cellConnections)
  /\ UNCHANGED <<ruleChecks, uiVars, appVars, pc, lineData, lineResults, cellConnections, firstRegions>>

\* the queue is empty: the region is closed, startCell++
CloseRegion ==
  /\ pc = "while"
  /\ bfs.queue = <<>>
  /\ bfs' = [bfs EXCEPT !.regions = pushRegion(@, bfs.region),
                        !.startCell = @ + 1]
  /\ pc' = "scan"
  /\ UNCHANGED <<ruleChecks, uiVars, appVars, lineData, lineResults, cellConnections, firstRegions>>

\* return regions
FindConnectedRegionsReturn ==
  /\ pc = "scan"
  /\ bfs.startCell >= 81
  /\ pc' = "regionsDone"
  /\ UNCHANGED <<ruleChecks, uiVars, appVars, lineData, lineResults, cellConnections, bfs, firstRegions>>

\* constructRegionsFromThickLines called once more on the same lines
ConstructAgain ==
  /\ pc = "regionsDone"
  /\ firstRegions = <<>>
  /\ firstRegions' = << bfs.regions >>
  /\ pc' = "constructRegions"
  /\ UNCHANGED <<ruleChecks, uiVars, appVars, lineData, lineResults, cellConnections, bfs>>

ReconstructStep ==
  \/ CountLinePixels
  \/ ClassifyLines
  \/ EnforceBorderThickLines
  \/ BuildCellConnectionGraph
  \/ SkipVisited
  \/ StartRegion
  \/ Visit
  \/ CloseRegion
  \/ FindConnectedRegionsReturn

NextR ==
  \/ ReconstructStep
  \/ ConstructAgain

SpecR == InitR /\ [][NextR]_vars

\* the pipeline is straight-line code: a step that can be taken is taken
SpecRFair == SpecR /\ WF_vars(NextR)

(***************************************************************************)
(* Regions and boundaries, stated on sets of cells, independently of the   *)
(* connection matrix and of the search.                                    *)
(***************************************************************************)
adjacent(p, q) ==
  \/ p[1] = q[1] /\ (p[2] = q[2] + 1 \/ q[2] = p[2] + 1)
  \/ p[2] = q[2] /\ (p[1] = q[1] + 1 \/ q[1] = p[1] + 1)

\* the classification of the boundary segment between two adjacent cells
thickBetween(res, p, q) ==
  IF p[1] = q[1]
  THEN seg(res.thickVertical, IF p[2] > q[2] THEN p[2] ELSE q[2], p[1])
  ELSE seg(res.thickHorizontal, IF p[1] > q[1] THEN p[1] ELSE q[1], p[2])

RECURSIVE thinReach(_, _)
\* the cells joined to a cell of S by a path that crosses thin segments only
thinReach(res, S) ==
  LET N == S \cup { q \in Cells : \E p \in S : adjacent(p, q) /\ ~thickBetween(res, p, q) }
  IN IF N = S THEN S ELSE thinReach(res, N)

RECURSIVE reachWithin(_, _)
\* the cells of R joined to a cell of S by a path of adjacent cells of R
reachWithin(R, S) ==
  LET N == S \cup { q \in R : \E p \in S : adjacent(p, q) }
  IN IF N = S THEN S ELSE reachWithin(R, N)

\* the regions of a labelling, as a set of sets of cells
partitionOf(labels) ==
  { { q \in Cells : cell(labels, q) = cell(labels, p) } : p \in Cells }

\* 9 connected regions of 9 cells (they cover the grid, being label classes)
NineConnected(Q) ==
  /\ Cardinality(Q) = 9
  /\ \A R \in Q :
       /\ Cardinality(R) = 9
       /\ \E p \in R : reachWithin(R, {p}) = R

\* the thick inner segments of res are exactly the borders between the
\* regions of Q
bordersOf(res, Q) ==
  \A p, q \in Cells :
    adjacent(p, q) =>
      (thickBetween(res, p, q) <=> ~\E R \in Q : p \in R /\ q \in R)

regionSets(regs) == { RegionSet(regs[k]) : k \in 1..Len(regs) }

\* how often cell p occurs in the regions
occurrences(regs, p) ==
  Cardinality({ <<k, i>> \in (1..Len(regs)) \X (1..81) :
                  i <= Len(regs[k]) /\ regs[k][i] = p })

(***************************************************************************)
(* Claims about the reconstruction of regions.                             *)
(***************************************************************************)

\* C14: when the thick inner segments are exactly the borders between the
\* regions of a partition of the grid into 9 connected regions of 9 cells,
\* constructRegionsFromThickLines returns exactly 9 regions of exactly 9
\* cells, covering all 81 positions with no overlap, equal as sets to that
\* partition.
C14_PartitionRecovered ==
  (pc = "regionsDone") =>
    \A d \in Drawings :
      LET Q == partitionOf(d.labels)
      IN (NineConnected(Q) /\ bordersOf(lineResults, Q)) =>
           /\ Len(bfs.regions) = 9
           /\ \A k \in 1..9 : Len(bfs.regions[k]) = 9
           /\ IsPartition(bfs.regions)
           /\ regionSets(bfs.regions) = Q

\* the jigsaw partition recovered from its ink counts
C14_Witness ==
  /\ pc = "regionsDone"
  /\ bordersOf(lineResults, partitionOf(JigsawLabels))
  /\ regionSets(bfs.regions) = regionSets(JigsawRegions)
  /\ bfs.regions # JigsawRegions

\* C15: for every boundary map, findConnectedRegions returns, with all 81
\* cells visited, and its output is a partition of the grid: each of the 81
\* positions occurs in the returned regions exactly once, and no returned
\* region is empty.
C15_AlwaysAPartition ==
  /\ (pc = "constructRegions") ~> (pc = "regionsDone")
  /\ [](pc = "regionsDone" =>
          /\ \A i \in 0..80 : bfs.visited[i]
          /\ \A p \in Cells : occurrences(bfs.regions, p) = 1
          /\ \A k \in 1..Len(bfs.regions) : bfs.regions[k] # <<>>)

\* the search has returned on a map that is the drawing of no partition
C15_Witness ==
  /\ pc = "regionsDone"
  /\ lineResults \in Scribbles
  /\ Len(bfs.regions) # 9
  /\ \A p \in Cells : occurrences(bfs.regions, p) = 1

\* C16: two cells are in the same reconstructed region if and only if a
\* path of adjacent cells crossing thin segments only joins them: the regions
\* cover the grid and each is the set of cells so joined to its first cell;
\* with every inner segment thin there is 1 region of 81 cells, with every
\* inner segment thick 81 regions of 1 cell.
C16_RegionsAreThinComponents ==
  (pc = "regionsDone") =>
    /\ UNION regionSets(bfs.regions) = Cells
    /\ \A k \in 1..Len(bfs.regions) :
         RegionSet(bfs.regions[k]) = thinReach(lineResults, {bfs.regions[k][1]})
    /\ (\A p, q \in Cells : adjacent(p, q) => ~thickBetween(lineResults, p, q))
         => (Len(bfs.regions) = 1 /\ Len(bfs.regions[1]) = 81)
    /\ (\A p, q \in Cells : adjacent(p, q) => thickBetween(lineResults, p, q))
         => (Len(bfs.regions) = 81 /\ \A k \in 1..81 : Len(bfs.regions[k]) = 1)

\* two cells on both sides of a thick segment that a thin path joins are in
\* one region, in a map that yields 9 regions
C16_Witness ==
  /\ pc = "regionsDone"
  /\ Len(bfs.regions) = 9
  /\ \E p, q \in Cells :
       /\ adjacent(p, q) /\ thickBetween(lineResults, p, q)
       /\ \E k \in 1..9 : p \in RegionSet(bfs.regions[k]) /\ q \in RegionSet(bfs.regions[k])

\* the cells of regions 1..k-1 (regions 0..k-2 of the source)
earlier(regs, k) == UNION { RegionSet(regs[j]) : j \in 1..(k - 1) }

\* C17: the first cell of region k is the row-major-smallest cell not
\* contained in the regions before it, so the smallest cell indices of the
\* regions increase; and two runs on the same boundary map return identical
\* regions in identical order with identical cell order.
C17_RowMajorDiscovery ==
  (pc = "regionsDone") =>
    /\ \A k \in 1..Len(bfs.regions) :
         LET r == bfs.regions[k]
             rest == { cellIndex(p[1], p[2]) : p \in Cells \ earlier(bfs.regions, k) }
         IN /\ cellIndex(r[1][1], r[1][2]) = Min(rest)
            /\ \A i \in 1..Len(r) : cellIndex(r[i][1], r[i][2]) >= Min(rest)
    /\ firstRegions # <<>> => bfs.regions = firstRegions[1]

\* a second run has returned; some region lists its cells in an order that
\* is not row-major
C17_Witness ==
  /\ pc = "regionsDone"
  /\ firstRegions # <<>>
  /\ Len(bfs.regions) = 9
  /\ \E k \in 1..9 : \E i \in 1..(Len(bfs.regions[k]) - 1) :
       cellIndex(bfs.regions[k][i][1], bfs.regions[k][i][2])
         > cellIndex(bfs.regions[k][i + 1][1], bfs.regions[k][i + 1][2])

\* every measured count: the segments of both directions
allSegments == { <<m, line, k>> : m \in {"h", "v"}, line \in LineIdx, k \in Idx }

measured(sg) ==
  IF sg[1] = "h" THEN seg(lineData.horizontalLines, sg[2], sg[3])
  ELSE seg(lineData.verticalLines, sg[2], sg[3])

classified(res, sg) ==
  IF sg[1] = "h" THEN seg(res.thickHorizontal, sg[2], sg[3])
  ELSE seg(res.thickVertical, sg[2], sg[3])

perimeterSegment(sg) == sg[2] \in {0, 9}

\* m is a median of the measured counts: a measured value with at least half
\* of the counts not above it and at least half not below it
isMedian(m) ==
  /\ \E sg \in allSegments : measured(sg) = m
  /\ 2 * Cardinality({ sg \in allSegments : measured(sg) <= m }) >= Cardinality(allSegments)
  /\ 2 * Cardinality({ sg \in allSegments : measured(sg) >= m }) >= Cardinality(allSegments)

C19_PerimeterForcedThick ==
  [][ pc = "enforceBorderThickLines" =>
        \A sg \in allSegments :
          IF perimeterSegment(sg) THEN classified(lineResults', sg)
          ELSE classified(lineResults', sg) = classified(lineResults, sg) ]_vars

\* after detectLinesAdvanced: a perimeter segment that measured 0 is thick,
\* and some inner segment is thin and another thick
C19_Witness ==
  /\ pc = "constructRegions" /\ lineData # <<>>
  /\ \E sg \in allSegments :
       perimeterSegment(sg) /\ measured(sg) = 0 /\ classified(lineResults, sg)
  /\ \E sg \in allSegments : ~perimeterSegment(sg) /\ classified(lineResults, sg)
  /\ \E sg \in allSegments : ~perimeterSegment(sg) /\ ~classified(lineResults, sg)

(***************************************************************************)
(* App.handleImageUpload (src/README.md): processImage, then the check of  *)
(* the recognised grid, then the solver and the validator.                 *)
(***************************************************************************)
\* validateInitialGrid, body of the double loop for one cell: one message
\* per origin in which another cell holds the value; the region is the first
\* one of regions that contains the cell (regions?.find)
initialCellErrors(g, regs, row, col) ==
  LET value == at(g, row, col)
      region == IF regs # <<>> THEN findRegionContaining(row, col, regs[1]) ELSE <<>>
  IN IF value = Null THEN <<>>
     ELSE (IF \E i \in Idx : i # col /\ at(g, row, i) = value
           THEN << error(row, col, <<"row", value>>) >> ELSE <<>>)
       \o (IF \E i \in Idx : i # row /\ at(g, i, col) = value
           THEN << error(row, col, <<"col", value>>) >> ELSE <<>>)
       \o (IF /\ region # <<>>
              /\ \E k \in 1..Len(region[1]) :
                   /\ region[1][k] # <<row, col>>
                   /\ at(g, region[1][k][1], region[1][k][2]) = value
           THEN << error(row, col, <<"region", value>>) >> ELSE <<>>)

\* a plausible slip: the messages are pushed to a list that is not returned
validateInitialGrid_lost(g, regs) == <<>>

validateInitialGrid(g, regs) ==
  concatFrom([k \in 1..81 |-> initialCellErrors(g, regs, (k - 1) \div 9, (k - 1) % 9)], 1)

\* the photographs: a drawing whose thick strokes measure 4 and thin ones 2
UploadLines ==
  { countsOf([labels |-> l, extra |-> {}], 2, 4, 0) :
      l \in { StandardLabels, JigsawLabels, PocketLabels, MergedLabels, OneLabel } }

\* the recognised digits: SolvedGrid with some cells of the pool not read
UploadGrids ==
  { withPool(f) : f \in { h \in PoolFillings :
      \A i \in 1..Len(Pool) : h[i] \in {Null, at(SolvedGrid, Pool[i][1], Pool[i][2])} } }

InitP ==
  /\ heap = <<>>
  /\ callerGrid = <<>>
  /\ regions = <<>>
  /\ grid = <<>>
  /\ thisRegions = <<>>
  /\ iterations = 0
  /\ maxIterations = DefaultMaxIterations
  /\ stack = <<>>
  /\ pc = "countLinePixels"
  /\ result = <<>>
  /\ first = <<>>
  /\ vcall = <<>>
  /\ validationResult = <<>>
  /\ comparison = <<>>
  /\ lineData \in UploadLines
  /\ lineResults = <<>>
  /\ cellConnections = {}
  /\ bfs = <<>>
  /\ firstRegions = <<>>
  /\ ruleChecks = <<>>
  /\ appState = initialAppState
  /\ editableGrid = <<>>
  /\ isEditing = FALSE
  /\ preEditState = <<>>
  /\ uploads = <<>>
  /\ running = <<>>
  /\ editBase = <<>>

\* processImage returns { grid, regions: constructedRegions }; the regions
\* array is never null, so the standard regions are not substituted
ProcessImageReturn ==
  /\ pc = "regionsDone"
  /\ firstRegions = <<>>
  /\ heap = <<>>
  /\ \E g \in UploadGrids : heap' = g
  /\ callerGrid' = [r \in 1..9 |-> r]
  /\ regions' = << bfs.regions >>
  /\ pc' = "uploaded"
  /\ UNCHANGED <<ruleChecks, uiVars, solverVars, vcall, validationResult, comparison, imageVars>>

\* validateInitialGrid(originalGrid, regions): with errors the step is
\* 'invalid' and the handler returns, else the solver is constructed
ValidateInitialGrid ==
  /\ pc = "uploaded"
  /\ pc' = IF validateInitialGrid(deref(heap, callerGrid), regions) # <<>>
           THEN "invalid" ELSE "new"
  /\ UNCHANGED <<ruleChecks, uiVars, heap, callerGrid, regions, solverVars, vcall, validationResult,
                 comparison, imageVars>>

NextP ==
  \/ ReconstructStep
  \/ ProcessImageReturn
  \/ ValidateInitialGrid
  \/ Next

SpecP == InitP /\ [][NextP]_vars

\* C20: the solver is never constructed or run with regions that are not
\* exactly 9 regions of exactly 9 cells covering all 81 positions once.
C20_SolverNeverRunOnMalformedRegions ==
  (pc \in {"constructed", "call", "loop", "returnTrue", "returnFalse", "done"}
     /\ lineResults # <<>>)
    => IsPartition(thisRegions)

(***************************************************************************)
(* The search after the budget is exceeded.                                *)
(***************************************************************************)
inSolve == pc \in {"call", "loop", "returnTrue", "returnFalse"}

\* the cells that hold a digit they did not hold before the step
written(g, h) == { p \in Cells : cell(h, p) # Null /\ cell(h, p) # cell(g, p) }

\* C22: once the step counter exceeds the budget, until solve() returns, no
\* candidate digit is written into the working grid and no further
\* invocation of solveSudoku is made (the counter, which counts the
\* invocations, stays as it is).
C22_AbortedImmediately ==
  [][ (inSolve /\ overBudget) =>
        /\ written(working, deref(heap', grid')) = {}
        /\ iterations' = iterations ]_vars

(***************************************************************************)
(* The recursion stack.                                                    *)
(***************************************************************************)
\* the nested invocations of solveSudoku: the ones inside their digit loop
\* and, at a call, the one being entered
frames == Len(stack) + (IF pc = "call" THEN 1 ELSE 0)

frameCell(k) == << stack[k].row, stack[k].col >>

\* C23 as stated: the nested solveSudoku frames are at most 81, at most one
\* per cell that was empty in the input grid.
C23_OneFramePerEmptyCell ==
  inSolve =>
    /\ frames <= 81
    /\ frames <= Cardinality(emptyCells(input))

\* C23, amended: the frames inside their digit loop work on distinct cells,
\* each empty in the input grid, and one more invocation, which meets no
\* empty cell or the budget, may be nested in them: at most one frame per
\* empty cell plus one, 82 at most.
C23_FramesBounded ==
  inSolve =>
    /\ \A k \in 1..Len(stack) : cell(input, frameCell(k)) = Null
    /\ \A j, k \in 1..Len(stack) : frameCell(j) = frameCell(k) => j = k
    /\ frames <= Cardinality(emptyCells(input)) + 1
    /\ frames <= 82

\* every empty cell has a frame in its digit loop and one more invocation is
\* being entered
C23_Witness ==
  /\ pc = "call"
  /\ Len(stack) = Cardinality(emptyCells(input))
  /\ Len(stack) >= 3
  /\ ~budgetExceeded(iterations + 1, maxIterations)

(***************************************************************************)
(* Termination of solve() on any input: grids whose clues conflict, and    *)
(* regions that are not a partition.  solve() may be called again on the   *)
(* same solver.                                                            *)
(***************************************************************************)
\* 7 regions: the boxes 0 and 2 listed as one region of 18 cells, and the
\* centre box left out, so that its cells are in no region
MalformedRegions ==
  << createStandardRegions[1] \o createStandardRegions[3],
     createStandardRegions[2],
     createStandardRegions[4] >>
    \o [k \in 1..4 |-> createStandardRegions[k + 5]]

InitT ==
  /\ \E g \in InputGrids : heap = g
  /\ callerGrid = [r \in 1..9 |-> r]
  /\ regions \in { <<MalformedRegions>>, <<JigsawRegions>> }
  /\ grid = <<>>
  /\ thisRegions = <<>>
  /\ iterations = 0
  /\ maxIterations = DefaultMaxIterations
  /\ stack = <<>>
  /\ pc = "new"
  /\ result = <<>>
  /\ first = <<>>
  /\ vcall = <<>>
  /\ validationResult = <<>>
  /\ comparison = <<>>
  /\ lineData = <<>>
  /\ lineResults = <<>>
  /\ cellConnections = {}
  /\ bfs = <<>>
  /\ firstRegions = <<>>
  /\ ruleChecks = <<>>
  /\ appState = initialAppState
  /\ editableGrid = <<>>
  /\ isEditing = FALSE
  /\ preEditState = <<>>
  /\ uploads = <<>>
  /\ running = <<>>
  /\ editBase = <<>>

\* solve() on a solver whose solve() has returned
SolveAgain ==
  /\ pc = "done"
  /\ iterations' = 0
  /\ pc' = "call"
  /\ UNCHANGED <<ruleChecks, uiVars, comparison, imageVars, heap, callerGrid, regions,
                 grid, thisRegions, maxIterations, stack, result, first, vcall,
                 validationResult>>

NextT ==
  \/ Next
  \/ SolveAgain

SpecT == InitT /\ [][NextT]_vars

\* solve() is synchronous code: a step of it that can be taken is taken
SpecTFair == SpecT /\ WF_vars(SolverStep)

\* C24: solve() terminates on every input, also with conflicting clues and
\* with regions that are not a partition: the counter is 0 when solve()
\* calls solveSudoku, every invocation adds exactly one to it and nothing
\* else changes it, an invocation made when the counter already exceeds the
\* budget returns false without touching the grid or searching, and every
\* solve() that has started returns.
C24_SolveTerminates ==
  /\ [][ /\ (pc # "call" /\ pc' = "call" /\ stack' = <<>>) => iterations' = 0
         /\ (pc = "call") => iterations' = iterations + 1
         /\ (pc \in {"loop", "returnTrue", "returnFalse"}) => iterations' = iterations
         /\ (pc = "call" /\ overBudget) =>
              /\ pc' = "returnFalse"
              /\ stack' = stack
              /\ heap' = heap ]_vars
  /\ (pc \in {"constructed", "call"}) ~> (pc = "done")

\* a solve with malformed regions and conflicting clues that ran over the
\* budget and returned, on a solver that had counted before
C24_Witness ==
  /\ pc = "done"
  /\ ~IsPartition(thisRegions)
  /\ ~NoDuplicates(input, thisRegions)
  /\ overBudget
  /\ iterations > maxIterations + 1

(***************************************************************************)
(* The solution returned among the completions of the input.               *)
(***************************************************************************)
\* the rule-conformant ways to fill the empty cells of g
completions(g, regs) ==
  LET E == emptyCells(g)
      D == UNION { freeDigits(g, regs, p) : p \in E }
  IN { f \in [E -> D] : NoDuplicates(fill(g, f), regs) }

rowMajor(p) == p[1] * 9 + p[2]

\* a differs from b, and holds the smaller digit at the first cell, in
\* row-major order, where they differ
lexBefore(a, b) ==
  \E p \in DOMAIN a :
    /\ a[p] < b[p]
    /\ \A q \in DOMAIN a : rowMajor(q) < rowMajor(p) => a[q] = b[q]

entryGrid ==
  fill(input, [p \in { frameCell(k) : k \in 1..Len(stack) } |->
                 stack[CHOOSE k \in 1..Len(stack) : frameCell(k) = p].num])

\* C26: whenever a solveSudoku invocation returns false the working grid is,
\* cell for cell, what it was when that invocation started; when solve()
\* returns null, after an exhausted search or an exceeded budget, the
\* solver's working grid equals the input grid.
C26_BacktrackingRestores ==
  /\ pc = "returnFalse" => working = entryGrid
  /\ (pc = "done" /\ result = <<>>) => working = input

\* null after a search that wrote and reset cells, within the budget or not
C26_Witness ==
  /\ pc = "done" /\ result = <<>>
  /\ iterations >= 4
  /\ Cardinality(emptyCells(input)) >= 3
  /\ overBudget

\* null after an exhausted search
C26_WitnessExhausted ==
  /\ pc = "done" /\ result = <<>>
  /\ iterations >= 4
  /\ ~overBudget

(***************************************************************************)
(* The three rule checkers on one grid: SudokuSolver.isGridValid,          *)
(* SudokuValidator.validate(grid, grid, regions), validateInitialGrid.     *)
(***************************************************************************)
\* a plausible slip: the cell under test is not emptied in tempGrid
isGridValid_keepsCell(g, regs) ==
  LET regionData == IF regs # <<>> THEN regs[1] ELSE createStandardRegions
  IN \A row \in Idx, col \in Idx :
       LET value == at(g, row, col)
           region == findRegionContaining(row, col, regionData)
       IN value # Null =>
            /\ \A i \in Idx : at(g, row, i) # value
            /\ \A i \in Idx : at(g, i, col) # value
            /\ region # <<>> =>
                 \A k \in 1..Len(region[1]) :
                   at(g, region[1][k][1], region[1][k][2]) # value

\* SudokuSolver.isGridValid; findRegionContainingStatic is the search of
\* findRegionContaining on the regions given
isGridValid(g, regs) ==
  LET regionData == IF regs # <<>> THEN regs[1] ELSE createStandardRegions
  IN \A row \in Idx, col \in Idx :
       LET value == at(g, row, col)
           tempGrid == [g EXCEPT ![row + 1][col + 1] = Null]
           region == findRegionContaining(row, col, regionData)
       IN value # Null =>
            /\ \A i \in Idx : at(tempGrid, row, i) # value
            /\ \A i \in Idx : at(tempGrid, i, col) # value
            /\ region # <<>> =>
                 \A k \in 1..Len(region[1]) :
                   at(tempGrid, region[1][k][1], region[1][k][2]) # value

\* the grids checked: SolvedGrid with any filling of the rectangle, and
\* SolvedGrid with two rows exchanged
CheckedGrids == { withPool(f) : f \in CandidateFillings } \cup { RowSwapped }

\* the regions argument: omitted, the boxes, the jigsaw, regions that are not
\* a partition, the empty array
CheckedRegions == RegionInputs \cup { <<MalformedRegions>>, << <<>> >> }

InitG ==
  /\ heap = <<>>
  /\ callerGrid = <<>>
  /\ regions = <<>>
  /\ grid = <<>>
  /\ thisRegions = <<>>
  /\ iterations = 0
  /\ maxIterations = DefaultMaxIterations
  /\ stack = <<>>
  /\ pc = "check"
  /\ result = <<>>
  /\ first = <<>>
  /\ \E g \in CheckedGrids, regs \in CheckedRegions :
       vcall = << [originalGrid |-> g, currentGrid |-> g, regions |-> regs] >>
  /\ validationResult = <<>>
  /\ comparison = <<>>
  /\ lineData = <<>>
  /\ lineResults = <<>>
  /\ cellConnections = {}
  /\ bfs = <<>>
  /\ firstRegions = <<>>
  /\ ruleChecks = <<>>
  /\ appState = initialAppState
  /\ editableGrid = <<>>
  /\ isEditing = FALSE
  /\ preEditState = <<>>
  /\ uploads = <<>>
  /\ running = <<>>
  /\ editBase = <<>>

\* the three checkers called on the same grid and regions
CheckGrid ==
  /\ pc = "check"
  /\ LET g == vcall[1].currentGrid
         regs == vcall[1].regions
     IN ruleChecks' = << [isGridValid         |-> isGridValid(g, regs),
                          validate            |-> validate(g, g, regs),
                          validateInitialGrid |-> validateInitialGrid(g, regs)] >>
  /\ pc' = "checked"
  /\ UNCHANGED <<uiVars, comparison, imageVars, heap, callerGrid, regions, solverVars,
                 vcall, validationResult>>

NextG == CheckGrid

SpecG == InitG /\ [][NextG]_vars

\* C27: for every grid and every regions value supplied, isGridValid is true
\* iff validate(grid, grid, regions).isValid is true iff validateInitialGrid
\* returns no errors, and validateInitialGrid reports an error for a position
\* exactly when validate reports a violation at that position.
C27_CheckersAgree ==
  (pc = "checked" /\ vcall[1].regions # <<>>) =>
    LET c == ruleChecks[1]
    IN /\ c.isGridValid <=> c.validate.isValid
       /\ c.validate.isValid <=> (c.validateInitialGrid = <<>>)
       /\ \A p \in Cells :
            reportedAt(c.validateInitialGrid, p) <=> reportedAt(c.validate.errors, p)

\* a grid that breaks only a region rule of the regions supplied, and a
\* grid rejected under regions that are not a partition
C27_Witness ==
  /\ pc = "checked" /\ vcall[1].regions # <<>>
  /\ ~ruleChecks[1].isGridValid
  /\ \/ vcall[1].currentGrid = RowSwapped
     \/ vcall[1].regions = <<MalformedRegions>>

\* outside the claim: with the regions argument omitted isGridValid checks
\* the 3x3 boxes and the other two check no region (reachable)
OmittedRegionsDiffer ==
  /\ pc = "checked" /\ vcall[1].regions = <<>>
  /\ ~ruleChecks[1].isGridValid
  /\ ruleChecks[1].validate.isValid
  /\ ruleChecks[1].validateInitialGrid = <<>>

(***************************************************************************)
(* App (src/README.md): the handlers of the component.  A handler runs to  *)
(* completion before another one starts; handleImageUpload gives up        *)
(* control at its await and is resumed when processImage settles.  The     *)
(* solver called by a handler runs in the steps of SolverStep, with pc     *)
(* "idle" when no handler is executing.                                    *)
(***************************************************************************)
\* at most this many uploads are started
MaxUploads == 2

\* what processImage resolves with.  processingSteps are kept as the file
\* they were made from; file k is the one of the k-th upload.  The grids:
\* (2,4) not read; a 2 read for the 4 at (2,4), which repeats in row and
\* column; a conformant grid without completion under the jigsaw
ocrResults(file) ==
  { [grid |-> withPool(<<Null, 2, 2, 4, 4>>),
     regions |-> createStandardRegions, processingSteps |-> file],
    [grid |-> withPool(<<2, 2, 2, 4, 4>>),
     regions |-> createStandardRegions, processingSteps |-> file],
    [grid |-> withPool(<<2, 4, Null, Null, 4>>),
     regions |-> JigsawRegions, processingSteps |-> file] }

\* the cells the user edits and the values typed
EditCells == { <<2, 4>> }
EditValues == { Null, 2 }

InitA ==
  /\ heap = <<>>
  /\ callerGrid = <<>>
  /\ regions = <<>>
  /\ grid = <<>>
  /\ thisRegions = <<>>
  /\ iterations = 0
  /\ maxIterations = DefaultMaxIterations
  /\ stack = <<>>
  /\ pc = "idle"
  /\ result = <<>>
  /\ first = <<>>
  /\ vcall = <<>>
  /\ validationResult = <<>>
  /\ comparison = <<>>
  /\ lineData = <<>>
  /\ lineResults = <<>>
  /\ cellConnections = {}
  /\ bfs = <<>>
  /\ firstRegions = <<>>
  /\ ruleChecks = <<>>
  /\ appState = initialAppState
  /\ editableGrid = <<>>
  /\ isEditing = FALSE
  /\ preEditState = <<>>
  /\ uploads = <<>>
  /\ running = <<>>
  /\ editBase = <<>>

\* what is not App state and not touched outside the solver
restVars == <<first, vcall, validationResult, comparison, imageVars, ruleChecks>>

\* the handler calls new SudokuSolver(g, regs): the arguments of the call
callSolver(handler, file, g, regs, steps) ==
  /\ running' = << [handler |-> handler, file |-> file, originalGrid |-> g,
                    regions |-> regs, processingSteps |-> steps] >>
  /\ heap' = g
  /\ callerGrid' = [r \in 1..9 |-> r]
  /\ regions' = << regs >>
  /\ pc' = "new"
  /\ UNCHANGED <<grid, thisRegions, iterations, maxIterations, stack, result>>

\* the handler returns: its locals and the solver it made are dropped
handlerReturns ==
  /\ running' = <<>>
  /\ heap' = <<>>
  /\ callerGrid' = <<>>
  /\ regions' = <<>>
  /\ grid' = <<>>
  /\ thisRegions' = <<>>
  /\ iterations' = 0
  /\ maxIterations' = DefaultMaxIterations
  /\ stack' = <<>>
  /\ result' = <<>>
  /\ pc' = "idle"

solverIdle ==
  UNCHANGED <<heap, callerGrid, regions, grid, thisRegions, iterations,
              maxIterations, stack, result, pc, running>>

\* handleImageUpload up to the await
HandleImageUpload ==
  /\ pc = "idle"
  /\ appState.currentStep = "upload"
  /\ Len(uploads) < MaxUploads
  /\ appState' = [appState EXCEPT !.isLoading = TRUE, !.currentStep = "processing"]
  /\ uploads' = Append(uploads, "pending")
  /\ editBase' = <<>>
  /\ solverIdle
  /\ UNCHANGED <<editableGrid, isEditing, preEditState, restVars>>

\* setAppState({... currentStep: 'invalid' ...}) of handleImageUpload
invalidState(ocr, errs) ==
  [originalGrid     |-> << ocr.grid >>,
   solvedGrid       |-> <<>>,
   regions          |-> << ocr.regions >>,
   validationResult |-> <<>>,
   isLoading        |-> FALSE,
   currentStep      |-> "invalid",
   validationErrors |-> << errs >>,
   processingSteps  |-> << ocr.processingSteps >>,
   solverError      |-> <<>>]

\* processImage resolved: the handler goes on to validateInitialGrid and,
\* without errors, to new SudokuSolver(originalGrid, regions)
ProcessImageResolved(k) ==
  /\ pc = "idle"
  /\ k \in 1..Len(uploads)
  /\ uploads[k] = "pending"
  /\ uploads' = [uploads EXCEPT ![k] = "settled"]
  /\ editBase' = <<>>
  /\ \E ocr \in ocrResults(k) :
       LET validationErrors == validateInitialGrid(ocr.grid, << ocr.regions >>)
       IN IF validationErrors # <<>>
          THEN /\ appState' = invalidState(ocr, validationErrors)
               /\ solverIdle
          ELSE /\ callSolver("handleImageUpload", k, ocr.grid, ocr.regions,
                             ocr.processingSteps)
               /\ UNCHANGED appState
  /\ UNCHANGED <<editableGrid, isEditing, preEditState, restVars>>

\* processImage rejected: the catch block
ProcessImageRejected(k) ==
  /\ pc = "idle"
  /\ k \in 1..Len(uploads)
  /\ uploads[k] = "pending"
  /\ uploads' = [uploads EXCEPT ![k] = "settled"]
  /\ editBase' = <<>>
  /\ appState' = [appState EXCEPT !.isLoading = FALSE, !.currentStep = "upload"]
  /\ solverIdle
  /\ UNCHANGED <<editableGrid, isEditing, preEditState, restVars>>

\* new SudokuSolver(...) in a handler: maxIterations is the field initialiser
NewSolver ==
  /\ running # <<>>
  /\ Construct(DefaultMaxIterations)

\* solve() and solveSudoku in a handler; with the budget of the field no
\* invocation on these grids finds it exceeded
SolverStepInBudget ==
  \/ Solve
  \/ EnterComplete
  \/ EnterCell
  \/ Place
  \/ Skip
  \/ Exhausted
  \/ Propagate
  \/ Undo
  \/ SolveReturn

\* solver.solve() returned in handleImageUpload: 'unsolvable', or validate
\* and 'result'
UploadSolved ==
  /\ pc = "done"
  /\ running # <<>>
  /\ running[1].handler = "handleImageUpload"
  /\ LET r == running[1]
     IN appState' =
          [originalGrid     |-> << r.originalGrid >>,
           solvedGrid       |-> returned,
           regions          |-> << r.regions >>,
           validationResult |->
             IF result = <<>> THEN <<>>
             ELSE << validate(r.originalGrid, returned[1], << r.regions >>) >>,
           isLoading        |-> FALSE,
           currentStep      |-> IF result = <<>> THEN "unsolvable" ELSE "result",
           validationErrors |-> <<>>,
           processingSteps  |-> << r.processingSteps >>,
           solverError      |-> IF result = <<>> THEN << "unsolvable" >> ELSE <<>>]
  /\ handlerReturns
  /\ UNCHANGED <<editableGrid, isEditing, preEditState, uploads, editBase, restVars>>

HandleStartOver ==
  /\ pc = "idle"
  /\ appState' = initialAppState
  /\ editBase' = <<>>
  /\ solverIdle
  /\ UNCHANGED <<editableGrid, isEditing, preEditState, uploads, restVars>>

\* the steps whose page shows the grid with the edit buttons
gridShown ==
  /\ appState.currentStep \in {"invalid", "unsolvable", "result"}
  /\ appState.originalGrid # <<>>

\* the button is rendered when !isEditing
HandleStartEdit ==
  /\ pc = "idle"
  /\ gridShown
  /\ ~isEditing
  /\ preEditState' = << [step             |-> appState.currentStep,
                         validationResult |-> appState.validationResult,
                         validationErrors |-> appState.validationErrors] >>
  /\ editableGrid' = appState.originalGrid
  /\ isEditing' = TRUE
  /\ appState' = [appState EXCEPT !.currentStep = "result",
                                  !.validationErrors = <<>>]
  /\ editBase' = << [appState |-> appState, edited |-> FALSE, cancelled |-> FALSE] >>
  /\ solverIdle
  /\ UNCHANGED <<uploads, restVars>>

\* OverlayGrid is editable when isEditing
HandleCellEdit(row, col, value) ==
  /\ pc = "idle"
  /\ gridShown
  /\ isEditing
  /\ editableGrid' =
       IF editableGrid = <<>> THEN editableGrid
       ELSE << [editableGrid[1] EXCEPT ![row + 1][col + 1] = value] >>
  /\ solverIdle
  /\ editBase' = IF editBase # <<>> /\ editableGrid' # editableGrid
                 THEN << [editBase[1] EXCEPT !.edited = TRUE] >> ELSE editBase
  /\ UNCHANGED <<appState, isEditing, preEditState, uploads, restVars>>

\* a plausible slip: the validation errors are not put back
restored_stepOnly(prev, pre) ==
  [prev EXCEPT !.currentStep = pre.step,
               !.validationResult = pre.validationResult]

\* handleCancelEdit: setAppState(prev => ({...prev, currentStep: ...}))
restored(prev, pre) ==
  [prev EXCEPT !.currentStep = pre.step,
               !.validationResult = pre.validationResult,
               !.validationErrors = pre.validationErrors]

\* handleCancelEdit, with its fallback when no pre-edit state is saved
HandleCancelEdit ==
  /\ pc = "idle"
  /\ gridShown
  /\ isEditing
  /\ editableGrid' = <<>>
  /\ isEditing' = FALSE
  /\ IF preEditState # <<>>
     THEN /\ appState' = restored(appState, preEditState[1])
          /\ preEditState' = <<>>
     ELSE /\ UNCHANGED preEditState
          /\ IF appState.originalGrid # <<>>
             THEN LET validationErrors ==
                        validateInitialGrid(appState.originalGrid[1], appState.regions)
                  IN appState' =
                       [appState EXCEPT
                          !.validationErrors =
                             IF validationErrors # <<>> THEN << validationErrors >>
                             ELSE <<>>,
                          !.currentStep =
                             IF validationErrors # <<>> THEN "invalid" ELSE "result"]
             ELSE UNCHANGED appState
  /\ editBase' = IF editBase # <<>>
                 THEN << [editBase[1] EXCEPT !.cancelled = TRUE] >> ELSE editBase
  /\ solverIdle
  /\ UNCHANGED <<uploads, restVars>>

\* handleFinishEdit up to its return or to new SudokuSolver(editableGrid, ...)
HandleFinishEdit ==
  /\ pc = "idle"
  /\ gridShown
  /\ isEditing
  /\ editBase' = <<>>
  /\ IF editableGrid = <<>>
     THEN /\ solverIdle
          /\ UNCHANGED <<appState, editableGrid, isEditing, preEditState>>
     ELSE LET validationErrors ==
                validateInitialGrid(editableGrid[1], appState.regions)
          IN IF validationErrors # <<>>
             THEN /\ appState' = [appState EXCEPT
                                    !.originalGrid = editableGrid,
                                    !.validationErrors = << validationErrors >>,
                                    !.currentStep = "invalid",
                                    !.validationResult = <<>>,
                                    !.solvedGrid = <<>>]
                  /\ isEditing' = FALSE
                  /\ editableGrid' = <<>>
                  /\ preEditState' = <<>>
                  /\ solverIdle
             ELSE /\ appState' = [appState EXCEPT !.originalGrid = editableGrid]
                  /\ UNCHANGED <<editableGrid, isEditing, preEditState>>
                  /\ IF appState.regions = <<>>
                     THEN solverIdle
                     ELSE callSolver("handleFinishEdit", 0, editableGrid[1],
                                     appState.regions[1], 0)
  /\ UNCHANGED <<uploads, restVars>>

\* solver.solve() returned in handleFinishEdit
FinishEditSolved ==
  /\ pc = "done"
  /\ running # <<>>
  /\ running[1].handler = "handleFinishEdit"
  /\ LET r == running[1]
     IN appState' =
          IF result # <<>>
          THEN [appState EXCEPT
                  !.originalGrid = << r.originalGrid >>,
                  !.solvedGrid = returned,
                  !.validationResult =
                     << validate(r.originalGrid, returned[1], << r.regions >>) >>,
                  !.currentStep = "result",
                  !.validationErrors = <<>>]
          ELSE [appState EXCEPT
                  !.originalGrid = << r.originalGrid >>,
                  !.solvedGrid = <<>>,
                  !.currentStep = "unsolvable",
                  !.solverError = << "unsolvable" >>,
                  !.validationErrors = <<>>]
  /\ isEditing' = FALSE
  /\ editableGrid' = <<>>
  /\ preEditState' = <<>>
  /\ handlerReturns
  /\ UNCHANGED <<uploads, editBase, restVars>>

NextA ==
  \/ HandleImageUpload
  \/ \E k \in 1..MaxUploads : ProcessImageResolved(k)
  \/ \E k \in 1..MaxUploads : ProcessImageRejected(k)
  \/ NewSolver
  \/ SolverStepInBudget
  \/ UploadSolved
  \/ HandleStartOver
  \/ HandleStartEdit
  \/ \E p \in EditCells, value \in EditValues : HandleCellEdit(p[1], p[2], value)
  \/ HandleCancelEdit
  \/ HandleFinishEdit
  \/ FinishEditSolved

SpecA == InitA /\ [][NextA]_vars

(***************************************************************************)
(* Claims about the App.                                                   *)
(***************************************************************************)
\* the grid and regions a handler is about to give, or has given, to the
\* solver break no rule
conformantCall(h, ref, regs) ==
  /\ validateInitialGrid(deref(h, ref), regs) = <<>>
  /\ NoDuplicates(deref(h, ref), regs[1])

\* the page of a grid with rule violations
shownInvalid(st) ==
  /\ st.currentStep = "invalid"
  /\ st.solvedGrid = <<>>
  /\ st.validationResult = <<>>
  /\ st.validationErrors # <<>>
  /\ ~NoDuplicates(st.originalGrid[1], st.regions[1])

\* C21: in the application flow solve() is called only on a grid for which
\* validateInitialGrid returned no errors, after image processing and after
\* finishing an edit; when errors exist the app enters step 'invalid' with
\* solvedGrid = null and validationResult = null and no solver is made.
C21_SolverOnlyOnConformantGrid ==
  /\ [](pc = "constructed" => conformantCall(heap, callerGrid, regions))
  /\ [][ /\ (\E k \in 1..MaxUploads : ProcessImageResolved(k)) =>
              \/ pc' = "new" /\ conformantCall(heap', callerGrid', regions')
              \/ pc' = "idle" /\ shownInvalid(appState')
         /\ (HandleFinishEdit /\ editableGrid # <<>>) =>
              \/ pc' = "new" /\ conformantCall(heap', callerGrid', regions')
              \/ pc' = "idle" /\ shownInvalid(appState') ]_vars

\* solve() is about to be called on a grid the user corrected after the
\* recognised grid was rejected
C21_Witness ==
  /\ pc = "constructed"
  /\ running # <<>>
  /\ running[1].handler = "handleFinishEdit"
  /\ preEditState # <<>>
  /\ preEditState[1].step = "invalid"
  /\ preEditState[1].validationErrors # <<>>

\* C28: handleStartEdit, any handleCellEdit calls, handleCancelEdit leave
\* currentStep, validationResult, validationErrors, originalGrid, solvedGrid
\* and regions as they were before handleStartEdit, with isEditing = false,
\* editableGrid = null and no saved pre-edit state; while the edit is open
\* the cell edits do not reach originalGrid, and a cell edit changes nothing
\* of appState.
C28_CancelIsRoundTrip ==
  /\ [](editBase # <<>> =>
          LET before == editBase[1].appState
          IN /\ appState.originalGrid = before.originalGrid
             /\ appState.solvedGrid = before.solvedGrid
             /\ appState.regions = before.regions
             /\ editBase[1].cancelled =>
                  /\ appState.currentStep = before.currentStep
                  /\ appState.validationResult = before.validationResult
                  /\ appState.validationErrors = before.validationErrors
                  /\ ~isEditing
                  /\ editableGrid = <<>>
                  /\ preEditState = <<>>)
  /\ [][ (\E p \in EditCells, value \in EditValues :
            HandleCellEdit(p[1], p[2], value)) => appState' = appState ]_vars

\* an edit of a rejected grid, with a cell changed, has been cancelled
C28_Witness ==
  /\ editBase # <<>>
  /\ editBase[1].cancelled
  /\ editBase[1].edited
  /\ editBase[1].appState.currentStep = "invalid"
  /\ editBase[1].appState.validationErrors # <<>>

\* the same from the result page, where a validation result is shown
C28_WitnessResult ==
  /\ editBase # <<>>
  /\ editBase[1].cancelled
  /\ editBase[1].edited
  /\ editBase[1].appState.currentStep = "result"
  /\ editBase[1].appState.validationResult # <<>>

\* the upload started last
latestUpload == Len(uploads)

\* C29: the puzzle shown belongs to the most recently started upload: what
\* an upload writes into the app state when it completes (grid, regions,
\* solvedGrid, step; processingSteps tell the upload) is never that of an
\* upload started before the last one or before the last handleStartOver,
\* and from step 'upload' the app moves on only when an upload is started.
C29_LatestUploadShown ==
  /\ [](appState.processingSteps # <<>> =>
          appState.processingSteps[1] = latestUpload)
  /\ [][ (appState.currentStep = "upload" /\ appState'.currentStep # "upload") =>
           Len(uploads') = Len(uploads) + 1 ]_vars

\* C30: handleStartOver returns the whole application to its initial state
\* from any reachable state, the middle of an edit included: afterwards
\* appState is the initial one, isEditing is false, editableGrid and the
\* saved pre-edit state are null; so a page reached from step 'upload' or
\* 'processing' is never shown in edit mode.
C30_StartOverResetsAll ==
  /\ [][ HandleStartOver =>
           /\ appState' = initialAppState
           /\ ~isEditing'
           /\ editableGrid' = <<>>
           /\ preEditState' = <<>> ]_vars
  /\ [][ (appState.currentStep \in {"upload", "processing"} /\ gridShown') =>
           ~isEditing' /\ editableGrid' = <<>> ]_vars

\* the page of the second upload shown in edit mode with the grid typed
\* into the first puzzle (reachable)
StaleEditShown ==
  /\ gridShown
  /\ appState.processingSteps = << 2 >>
  /\ isEditing
  /\ editableGrid # <<>>
  /\ editableGrid # appState.originalGrid
  /\ appState.regions[1] = createStandardRegions
  /\ preEditState # <<>>
  /\ preEditState[1].step = "unsolvable"

====
